---- MODULE Spec2Model ----
(***************************************************************************)
(* A model of two ASPECT material models:                                  *)
(*   benchmarks/nonlinear_channel_flow/simple_nonlinear.cc (SimpleNonlinear)*)
(*   source/material_model/visco_plastic.cc                (ViscoPlastic)  *)
(*                                                                         *)
(* Numbers.  A C++ double is modelled as an exact rational <<n, d>> in     *)
(* lowest terms with d > 0, plus the three IEEE special values a division  *)
(* by zero produces: PosInf = <<1,0>>, NegInf = <<-1,0>>, NaN = <<0,0>>.   *)
(* Rounding to 53 bits is not modelled: every arithmetic result is the     *)
(* exact one, so a statement of the form "equals exactly" is a statement   *)
(* about exact arithmetic (the doubles of the program agree with it up to  *)
(* rounding).  Signed zeros are not distinguished.                         *)
(*                                                                         *)
(* Library functions.  std::exp, std::log, std::pow, std::sqrt, std::sin   *)
(* and std::cos are modelled by total rational surrogates with the         *)
(* algebraic properties the program relies on: Exp2/Log2 are Mitchell's    *)
(* piecewise-linear base-2 exponential and logarithm (strictly increasing, *)
(* mutually inverse, exact at powers of two); Sin/Cos are Bhaskara's       *)
(* rational approximation (Sin(0) = 0, Cos(0) = 1, positive inside the     *)
(* first quadrant).                                                        *)
(***************************************************************************)
EXTENDS Integers, Sequences, FiniteSets, TLC

VARIABLES
    cfg,    \* the member variables parse_parameters sets (the configuration)
    call    \* the last member function called: its name, arguments, result

vars == <<cfg, call>>

(***************************************************************************)
(* double arithmetic                                                       *)
(***************************************************************************)
Abs(i) == IF i < 0 THEN -i ELSE i

Sign(i) == IF i < 0 THEN -1 ELSE IF i > 0 THEN 1 ELSE 0

RECURSIVE GCD(_, _)
GCD(a, b) == IF b = 0 THEN a ELSE GCD(b, a % b)

\* The double n/d; a zero denominator gives +inf, -inf or NaN as in IEEE 754.
Rat(n, d) ==
    IF d = 0 THEN <<Sign(n), 0>>
    ELSE LET g == GCD(Abs(n), Abs(d))
             s == IF d < 0 THEN -1 ELSE 1
         IN  <<(s * n) \div g, (s * d) \div g>>

Zero == <<0, 1>>
One == <<1, 1>>
Two == <<2, 1>>
Half == <<1, 2>>
PosInf == <<1, 0>>
NegInf == <<-1, 0>>
NaN == <<0, 0>>

IsNaN(a) == a = NaN
IsFinite(a) == a[2] # 0

RNeg(a) == <<-a[1], a[2]>>

\* a + b
RAdd(a, b) ==
    IF IsNaN(a) \/ IsNaN(b) THEN NaN
    ELSE IF ~IsFinite(a) /\ ~IsFinite(b) THEN (IF a = b THEN a ELSE NaN)
    ELSE IF ~IsFinite(a) THEN a
    ELSE IF ~IsFinite(b) THEN b
    ELSE LET g == GCD(a[2], b[2])
         IN  Rat(a[1] * (b[2] \div g) + b[1] * (a[2] \div g), (a[2] \div g) * b[2])

\* a - b
RSub(a, b) == RAdd(a, RNeg(b))

\* a * b
RMul(a, b) ==
    IF IsNaN(a) \/ IsNaN(b) THEN NaN
    ELSE IF ~IsFinite(a) \/ ~IsFinite(b) THEN <<Sign(a[1]) * Sign(b[1]), 0>>
    ELSE LET g1 == GCD(Abs(a[1]), b[2])
             g2 == GCD(Abs(b[1]), a[2])
         IN  Rat((a[1] \div g1) * (b[1] \div g2), (a[2] \div g2) * (b[2] \div g1))

\* 1 / a  (1/0 = +inf, 1/inf = 0)
RInv(a) ==
    IF IsNaN(a) THEN NaN
    ELSE IF ~IsFinite(a) THEN Zero
    ELSE IF a[1] = 0 THEN PosInf
    ELSE Rat(a[2], a[1])

\* a / b  (x/0 = +-inf for x # 0, 0/0 = NaN, inf/inf = NaN)
RDiv(a, b) ==
    IF IsNaN(a) \/ IsNaN(b) THEN NaN
    ELSE IF ~IsFinite(a) /\ ~IsFinite(b) THEN NaN
    ELSE IF IsFinite(b) /\ b[1] = 0 THEN <<Sign(a[1]), 0>>
    ELSE RMul(a, RInv(b))

\* a < b ; false when either is NaN
RLt(a, b) ==
    IF IsNaN(a) \/ IsNaN(b) THEN FALSE
    ELSE IF ~IsFinite(a) \/ ~IsFinite(b)
         THEN (IF a = b THEN FALSE
               ELSE IF a = NegInf \/ b = PosInf THEN TRUE
               ELSE FALSE)
    ELSE LET g == GCD(a[2], b[2])
         IN  a[1] * (b[2] \div g) < b[1] * (a[2] \div g)

\* a <= b ; false when either is NaN
RLe(a, b) == ~IsNaN(a) /\ ~IsNaN(b) /\ ~RLt(b, a)

RGt(a, b) == RLt(b, a)

RGe(a, b) == RLe(b, a)

\* std::min(a, b) = (b < a) ? b : a
RMin(a, b) == IF RLt(b, a) THEN b ELSE a

\* std::max(a, b) = (a < b) ? b : a
RMax(a, b) == IF RLt(a, b) THEN b ELSE a

\* std::fabs
RAbs(a) == <<Abs(a[1]), a[2]>>

\* left-to-right sum of a sequence of doubles, starting from 0.0
RECURSIVE RSum(_)
RSum(s) == IF s = <<>> THEN Zero ELSE RAdd(RSum(SubSeq(s, 1, Len(s) - 1)), s[Len(s)])

\* all sequences over S of length 0..n
SeqsUpTo(S, n) == UNION {[1..k -> S] : k \in 0..n}

(***************************************************************************)
(* SimpleNonlinear::compute_volume_fractions                               *)
(***************************************************************************)
\* bound: the largest number of compositional fields tried
MaxFields == 3

\* compositional field values tried: below 0, inside [0,1], above 1
CompValues == {Rat(-1, 2), Zero, Rat(1, 4), Rat(1, 2), One, Rat(3, 2)}

\* x_comp[i] = std::min(std::max(x_comp[i], 0.0), 1.0)
clip(x) == RMin(RMax(x, Zero), One)

x_comp_of(compositional_fields) ==
    [i \in 1..Len(compositional_fields) |-> clip(compositional_fields[i])]

\* mutant: the clipping loop is missing
compute_volume_fractions_unclipped(compositional_fields) ==
    LET x_comp == compositional_fields
        sum_composition == RSum(x_comp)
    IN  IF RGe(sum_composition, One)
        THEN <<Zero>> \o [i \in 1..Len(x_comp) |-> RDiv(x_comp[i], sum_composition)]
        ELSE <<RSub(One, sum_composition)>> \o x_comp

\* mutant: the branch that renormalises a sum above 1 is missing
compute_volume_fractions_no_renormalise(compositional_fields) ==
    LET x_comp == x_comp_of(compositional_fields)
        sum_composition == RSum(x_comp)
    IN  <<RSub(One, sum_composition)>> \o x_comp

\* volume_fractions[0] is the background; index i of the code is i+1 here
compute_volume_fractions(compositional_fields) ==
    LET x_comp == x_comp_of(compositional_fields)
        sum_composition == RSum(x_comp)
    IN  IF RGe(sum_composition, One)
        THEN <<Zero>> \o [i \in 1..Len(x_comp) |-> RDiv(x_comp[i], sum_composition)]
        ELSE <<RSub(One, sum_composition)>> \o x_comp

NoCfg == [model |-> "none"]

\* A call that has its arguments and has not run yet, and the call after it ran.
Pending(op, in) == [op |-> op, in |-> in, out |-> <<>>, done |-> FALSE]
Returned(c, out) == [c EXCEPT !.out = out, !.done = TRUE]

InitVF ==
    /\ cfg = NoCfg
    /\ \E c \in SeqsUpTo(CompValues, MaxFields) :
           call = Pending("compute_volume_fractions", c)

CallComputeVolumeFractions ==
    /\ call.op = "compute_volume_fractions" /\ ~call.done
    /\ call' = Returned(call, compute_volume_fractions(call.in))
    /\ UNCHANGED cfg

NextVF == CallComputeVolumeFractions

SpecVF == InitVF /\ [][NextVF]_vars

IsVF == call.op = "compute_volume_fractions" /\ call.done

ReferenceFraction(c, k) ==
    LET S == RSum([i \in 1..Len(c) |-> clip(c[i])])
    IN  IF k = 1
        THEN (IF RGe(S, One) THEN Zero ELSE RSub(One, S))
        ELSE (IF RGe(S, One) THEN RDiv(clip(c[k - 1]), S) ELSE clip(c[k - 1]))

\* C2: compute_volume_fractions equals the reference rule; an all-zero
\* composition gives background 1 and every other fraction 0.
C2_ReferenceRule ==
    IsVF =>
        /\ Len(call.out) = Len(call.in) + 1
        /\ \A k \in 1..Len(call.out) : call.out[k] = ReferenceFraction(call.in, k)
        /\ (\A i \in 1..Len(call.in) : call.in[i] = Zero) =>
               /\ call.out[1] = One
               /\ \A k \in 2..Len(call.out) : call.out[k] = Zero

\* both branches happen: a renormalised vector (sum above 1) ...
C2_Witness ==
    /\ IsVF
    /\ Len(call.in) = MaxFields
    /\ RGt(RSum(x_comp_of(call.in)), One)
    /\ call.out[1] = Zero
    /\ \E k \in 2..Len(call.out) : RLt(Zero, call.out[k]) /\ call.out[k] # clip(call.in[k - 1])

(***************************************************************************)
(* <cmath>: std::exp, std::log, std::pow, std::sqrt                        *)
(***************************************************************************)
RECURSIVE Pow2(_)
Pow2(k) == IF k = 0 THEN 1 ELSE 2 * Pow2(k - 1)

\* 2^y : Mitchell's interpolation 2^floor(y) * (1 + (y - floor(y)))
Exp2(y) ==
    IF IsNaN(y) THEN NaN
    ELSE IF y = PosInf THEN PosInf
    ELSE IF y = NegInf THEN Zero
    ELSE LET k == y[1] \div y[2]
             f == RSub(y, <<k, 1>>)
             p == IF k >= 0 THEN <<Pow2(k), 1>> ELSE <<1, Pow2(-k)>>
         IN  RMul(p, RAdd(One, f))

\* log2(x) for finite x > 0 : the inverse of Exp2
RECURSIVE Log2Pos(_)
Log2Pos(x) ==
    IF RGe(x, Two) THEN RAdd(One, Log2Pos(RMul(x, Half)))
    ELSE IF RLt(x, One) THEN RSub(Log2Pos(RMul(x, Two)), One)
    ELSE RSub(x, One)

Log2(x) ==
    IF IsNaN(x) THEN NaN
    ELSE IF x = PosInf THEN PosInf
    ELSE IF x = Zero THEN NegInf
    ELSE IF RLt(x, Zero) THEN NaN
    ELSE Log2Pos(x)

\* ln 2, as the double nearest to it is a rational too
Ln2 == <<7, 10>>

\* std::exp
Exp(y) == Exp2(RDiv(y, Ln2))

\* std::log
Log(x) == RMul(Log2(x), Ln2)

\* std::pow(b, e) for b >= 0 ; pow(b, 0) = 1 for every b
Pow(b, e) ==
    IF e = Zero THEN One
    ELSE IF IsNaN(b) \/ IsNaN(e) THEN NaN
    ELSE IF b = Zero THEN (IF RLt(e, Zero) THEN PosInf ELSE Zero)
    ELSE Exp2(RMul(e, Log2(b)))

\* std::sqrt
Sqrt(x) ==
    IF IsNaN(x) \/ RLt(x, Zero) THEN NaN
    ELSE IF x = Zero \/ x = PosInf THEN x
    ELSE Exp2(RMul(Half, Log2(x)))

(***************************************************************************)
(* ViscoPlastic::average_value                                             *)
(***************************************************************************)
\* bound: the largest number of compositional fields of an averaged point
MaxAvgFields == 2

averaging_scheme == {"arithmetic", "harmonic", "geometric", "maximum_composition"}

\* std::max_element: the first of the largest elements (1-based index)
RECURSIVE max_element_from(_, _, _)
max_element_from(s, largest, it) ==
    IF it > Len(s) THEN largest
    ELSE max_element_from(s, IF RLt(s[largest], s[it]) THEN it ELSE largest, it + 1)

max_element(s) == max_element_from(s, 1, 2)

\* mutant: the last of the largest elements
RECURSIVE max_element_last_from(_, _, _)
max_element_last_from(s, largest, it) ==
    IF it > Len(s) THEN largest
    ELSE max_element_last_from(s, IF RLe(s[largest], s[it]) THEN it ELSE largest, it + 1)

\* mutant: the harmonic sum is not inverted
average_value_harmonic_not_inverted(volume_fractions, parameter_values, average_type) ==
    LET n == Len(volume_fractions)
        arith(i) == RMul(volume_fractions[i], parameter_values[i])
        harm(i) == RDiv(volume_fractions[i], parameter_values[i])
        geom(i) == RMul(volume_fractions[i], Log(parameter_values[i]))
    IN  CASE average_type = "arithmetic" -> RSum([i \in 1..n |-> arith(i)])
          [] average_type = "harmonic" -> RSum([i \in 1..n |-> harm(i)])
          [] average_type = "geometric" -> Exp(RSum([i \in 1..n |-> geom(i)]))
          [] average_type = "maximum_composition" ->
                 parameter_values[max_element(volume_fractions)]

\* mutant: max_element resolves a tie to the last largest fraction
average_value_last_maximum(volume_fractions, parameter_values, average_type) ==
    LET n == Len(volume_fractions)
        arith(i) == RMul(volume_fractions[i], parameter_values[i])
        harm(i) == RDiv(volume_fractions[i], parameter_values[i])
        geom(i) == RMul(volume_fractions[i], Log(parameter_values[i]))
    IN  CASE average_type = "arithmetic" -> RSum([i \in 1..n |-> arith(i)])
          [] average_type = "harmonic" -> RDiv(One, RSum([i \in 1..n |-> harm(i)]))
          [] average_type = "geometric" -> Exp(RSum([i \in 1..n |-> geom(i)]))
          [] average_type = "maximum_composition" ->
                 parameter_values[max_element_last_from(volume_fractions, 1, 2)]

\* mutant: the harmonic case divides the value by the fraction
average_value_harmonic_swapped(volume_fractions, parameter_values, average_type) ==
    LET n == Len(volume_fractions)
        arith(i) == RMul(volume_fractions[i], parameter_values[i])
        harm(i) == RDiv(parameter_values[i], RAdd(volume_fractions[i], One))
        geom(i) == RMul(volume_fractions[i], Log(parameter_values[i]))
    IN  CASE average_type = "arithmetic" -> RSum([i \in 1..n |-> arith(i)])
          [] average_type = "harmonic" -> RDiv(One, RSum([i \in 1..n |-> harm(i)]))
          [] average_type = "geometric" -> Exp(RSum([i \in 1..n |-> geom(i)]))
          [] average_type = "maximum_composition" ->
                 parameter_values[max_element(volume_fractions)]

\* The switch's default case (AssertThrow) is unreachable: average_type is an
\* enum value of averaging_scheme.
average_value(volume_fractions, parameter_values, average_type) ==
    LET n == Len(volume_fractions)
        arith(i) == RMul(volume_fractions[i], parameter_values[i])
        harm(i) == RDiv(volume_fractions[i], parameter_values[i])
        geom(i) == RMul(volume_fractions[i], Log(parameter_values[i]))
    IN  CASE average_type = "arithmetic" -> RSum([i \in 1..n |-> arith(i)])
          [] average_type = "harmonic" -> RDiv(One, RSum([i \in 1..n |-> harm(i)]))
          [] average_type = "geometric" -> Exp(RSum([i \in 1..n |-> geom(i)]))
          [] average_type = "maximum_composition" ->
                 parameter_values[max_element(volume_fractions)]

\* compositions whose volume fractions are averaged, and positive phase values
AvgCompValues == {Zero, Rat(3, 10), Half, Rat(7, 10), One}
AvgParamValues == {Half, One, <<100, 1>>}

InitAvg ==
    /\ cfg = NoCfg
    /\ \E c \in SeqsUpTo(AvgCompValues, MaxAvgFields) :
       \E v \in [1..(Len(c) + 1) -> AvgParamValues] :
       \E t \in averaging_scheme :
           call = Pending("average_value",
                          [volume_fractions |-> compute_volume_fractions(c),
                           parameter_values |-> v,
                           average_type |-> t])

CallAverageValue ==
    /\ call.op = "average_value" /\ ~call.done
    /\ call' = Returned(call, average_value(call.in.volume_fractions,
                                            call.in.parameter_values,
                                            call.in.average_type))
    /\ UNCHANGED cfg

NextAvg == CallAverageValue

SpecAvg == InitAvg /\ [][NextAvg]_vars

IsAvg == call.op = "average_value" /\ call.done

NonNegativeSumToOne(w) ==
    /\ \A i \in 1..Len(w) : RLe(Zero, w[i])
    /\ RSum(w) = One

\* C3: for arithmetic, harmonic, geometric and maximum_composition, fractions
\* that are non-negative and sum to 1, and positive values, the result r of
\* average_value satisfies min(values) <= r <= max(values).
C3_AverageWithinBounds ==
    (/\ IsAvg
     /\ NonNegativeSumToOne(call.in.volume_fractions)
     /\ \A i \in 1..Len(call.in.parameter_values) : RLt(Zero, call.in.parameter_values[i]))
    => LET v == call.in.parameter_values
       IN  /\ \E i \in 1..Len(v) : RLe(v[i], call.out)
           /\ \E i \in 1..Len(v) : RLe(call.out, v[i])

\* a result strictly between the smallest and the largest value, three phases
C3_Witness ==
    /\ IsAvg
    /\ call.in.average_type = "geometric"
    /\ Len(call.in.volume_fractions) = MaxAvgFields + 1
    /\ NonNegativeSumToOne(call.in.volume_fractions)
    /\ \E i, j \in 1..Len(call.in.parameter_values) :
           /\ RLt(call.in.parameter_values[i], call.out)
           /\ RLt(call.out, call.in.parameter_values[j])

\* C4: with maximum_composition average_value returns the value of the phase
\* with the largest fraction, the lowest index winning a tie.
C4_MaximumCompositionFirst ==
    (IsAvg /\ call.in.average_type = "maximum_composition")
    => LET w == call.in.volume_fractions
       IN  \E i \in 1..Len(w) :
               /\ \A j \in 1..Len(w) : RLe(w[j], w[i])
               /\ \A j \in 1..(i - 1) : RLt(w[j], w[i])
               /\ call.out = call.in.parameter_values[i]

\* a tie between two phases with different values: the first one's is returned
C4_Witness ==
    /\ IsAvg /\ call.in.average_type = "maximum_composition"
    /\ \E i, j \in 1..Len(call.in.volume_fractions) :
           /\ i < j
           /\ call.in.volume_fractions[i] = call.in.volume_fractions[j]
           /\ \A k \in 1..Len(call.in.volume_fractions) :
                  RLe(call.in.volume_fractions[k], call.in.volume_fractions[i])
           /\ call.in.parameter_values[i] # call.in.parameter_values[j]
           /\ call.out = call.in.parameter_values[i]

\* the mathematical sum of a sequence, first term outermost
RECURSIVE SumOf(_)
SumOf(s) == IF s = <<>> THEN Zero ELSE RAdd(Head(s), SumOf(Tail(s)))

\* C5: harmonic returns 1 / sum_i (w_i / v_i) and arithmetic returns
\* sum_i (w_i * v_i); fractions [0.3, 0.7] with values [1, 100] (in units of
\* 1e20) give 1 / (0.3/1 + 0.7/100) = 1000/307.
C5_HarmonicArithmeticClosedForm ==
    IsAvg =>
        LET w == call.in.volume_fractions
            v == call.in.parameter_values
            wv(i) == RMul(w[i], v[i])
            w_v(i) == RDiv(w[i], v[i])
        IN  /\ call.in.average_type = "harmonic" =>
                /\ RMul(call.out, SumOf([i \in 1..Len(w) |-> w_v(i)])) = One
                /\ (w = <<Rat(3, 10), Rat(7, 10)>> /\ v = <<One, <<100, 1>>>>)
                       => call.out = Rat(1000, 307)
            /\ call.in.average_type = "arithmetic" =>
                call.out = SumOf([i \in 1..Len(w) |-> wv(i)])

\* the end-to-end scenario itself
C5_Witness ==
    /\ IsAvg /\ call.in.average_type = "harmonic"
    /\ call.in.volume_fractions = <<Rat(3, 10), Rat(7, 10)>>
    /\ call.in.parameter_values = <<One, <<100, 1>>>>
    /\ call.out = Rat(1000, 307)

(***************************************************************************)
(* ViscoPlastic: declare_parameters and parse_parameters                   *)
(*                                                                         *)
(* Stresses are in units of 1e12 Pa; the other quantities are in model     *)
(* units chosen so that viscosities, strain rates and strains are small    *)
(* rationals.                                                              *)
(***************************************************************************)
\* "Cohesions" default, 1e20 Pa
DefaultCohesion == 100000000

\* "Maximum yield stress" default, 1e12 Pa
DefaultMaxYieldStress == 1

\* numbers::PI, as the double nearest to pi is a rational too
PI == <<22, 7>>

\* constants::gas_constant, in model units
gas_constant == One

\* Tensor<2,dim>::n_independent_components
n_independent_components(dim) == dim * dim

\* The entries declare_parameters declares, with their defaults; dim and the
\* names of the compositional fields are the simulator's (n_compositional_fields,
\* introspection), known when parse_parameters runs.
declare_parameters ==
    [dim |-> 2,
     field_names |-> <<"c1">>,
     reference_temperature |-> One,
     minimum_strain_rate |-> Rat(1, 16),
     reference_strain_rate |-> One,
     minimum_viscosity |-> Rat(1, 4),
     maximum_viscosity |-> <<64, 1>>,
     thermal_diffusivities |-> <<Half>>,
     heat_capacities |-> <<One>>,
     densities |-> <<Two>>,
     thermal_expansivities |-> <<Half>>,
     grain_size |-> One,
     use_strain_weakening |-> FALSE,
     use_plastic_strain_weakening |-> FALSE,
     use_viscous_strain_weakening |-> FALSE,
     use_finite_strain_tensor |-> FALSE,
     start_plasticity_strain_weakening_intervals |-> <<Zero>>,
     end_plasticity_strain_weakening_intervals |-> <<One>>,
     start_prefactor_strain_weakening_intervals |-> <<Zero>>,
     end_prefactor_strain_weakening_intervals |-> <<One>>,
     prefactor_strain_weakening_factors |-> <<One>>,
     cohesion_strain_weakening_factors |-> <<One>>,
     friction_strain_weakening_factors |-> <<One>>,
     viscosity_averaging_scheme |-> "harmonic",
     viscous_flow_law |-> "composite",
     yield_mechanism |-> "drucker",
     prefactors_for_diffusion_creep |-> <<Half>>,
     grain_size_exponents_for_diffusion_creep |-> <<<<3, 1>>>>,
     activation_energies_for_diffusion_creep |-> <<One>>,
     activation_volumes_for_diffusion_creep |-> <<Half>>,
     prefactors_for_dislocation_creep |-> <<Rat(1, 4)>>,
     stress_exponents_for_dislocation_creep |-> <<Two>>,
     activation_energies_for_dislocation_creep |-> <<Two>>,
     activation_volumes_for_dislocation_creep |-> <<One>>,
     angles_of_internal_friction |-> <<Zero>>,
     cohesions |-> <<<<DefaultCohesion, 1>>>>,
     stress_limiter_exponents |-> <<One>>,
     maximum_yield_stress |-> <<DefaultMaxYieldStress, 1>>,
     use_fixed_spcrust_viscosity |-> FALSE,
     maximum_spcrust_viscosity |-> <<64, 1>>,
     minimum_transition_pressure_spcrust_viscosity |-> Zero,
     maximum_transition_pressure_spcrust_viscosity |-> Zero,
     use_spcrust_density_change |-> FALSE,
     density_change_from_spcrust |-> Zero,
     minimum_transition_pressure_spcrust_density |-> Zero,
     maximum_transition_pressure_spcrust_density |-> Zero]

\* introspection().compositional_name_exists
\* mutant: every compositional field name is taken to exist
compositional_name_exists_always(names, name) == TRUE

compositional_name_exists(names, name) == \E i \in 1..Len(names) : names[i] = name

\* introspection().compositional_index_for_name : the 0-based index; callers
\* ask only for names that exist
compositional_index_for_name(names, name) ==
    (CHOOSE i \in 1..Len(names) : names[i] = name) - 1

\* Utilities::possibly_extend_from_1_to_N : one value is broadcast to N
list_length_ok(values, N) == Len(values) = 1 \/ Len(values) = N

possibly_extend_from_1_to_N(values, N) ==
    IF Len(values) = 1 THEN [i \in 1..N |-> values[1]] ELSE values

\* the equation of state list entries of a parameter file
equation_of_state_entries(prm) ==
    <<prm.thermal_diffusivities, prm.heat_capacities,
      prm.densities, prm.thermal_expansivities>>

\* the per-phase list entries of a parameter file read after the strain
\* weakening flags
per_phase_entries(prm) ==
    <<prm.start_plasticity_strain_weakening_intervals,
      prm.end_plasticity_strain_weakening_intervals,
      prm.start_prefactor_strain_weakening_intervals,
      prm.end_prefactor_strain_weakening_intervals,
      prm.prefactor_strain_weakening_factors,
      prm.cohesion_strain_weakening_factors,
      prm.friction_strain_weakening_factors,
      prm.prefactors_for_diffusion_creep,
      prm.grain_size_exponents_for_diffusion_creep,
      prm.activation_energies_for_diffusion_creep,
      prm.activation_volumes_for_diffusion_creep,
      prm.prefactors_for_dislocation_creep,
      prm.stress_exponents_for_dislocation_creep,
      prm.activation_energies_for_dislocation_creep,
      prm.activation_volumes_for_dislocation_creep,
      prm.angles_of_internal_friction,
      prm.cohesions,
      prm.stress_limiter_exponents>>

\* the finite strain tensor fields exist and are in the order the code asks for
finite_strain_fields_ok(prm) ==
    LET names == prm.field_names
        s == n_independent_components(prm.dim)
        idx(name) == compositional_index_for_name(names, name)
        names2 == {"s11", "s12", "s21", "s22"}
        names3 == {"s13", "s23", "s31", "s32", "s33"}
    IN  /\ \A n \in names2 : compositional_name_exists(names, n)
        /\ idx("s12") > idx("s11") /\ idx("s21") > idx("s12") /\ idx("s22") > idx("s21")
        /\ prm.dim = 3 =>
              /\ \A n \in names3 : compositional_name_exists(names, n)
              /\ idx("s23") > idx("s13") /\ idx("s31") > idx("s23")
              /\ idx("s32") > idx("s31") /\ idx("s33") > idx("s32")
              /\ idx("s33") = idx("s13") + s - 1

\* The first AssertThrow of parse_parameters that fails, or "" if none does.
\* mutant: the finite strain tensor is accepted together with plastic or
\* viscous strain weakening
parse_error_tensor_not_exclusive(prm) ==
    LET names == prm.field_names
        n_fields == Len(names) + 1
        s == n_independent_components(prm.dim)
        lists == per_phase_entries(prm)
        eos == equation_of_state_entries(prm)
    IN  IF \E k \in 1..Len(eos) : ~list_length_ok(eos[k], n_fields)
            THEN "a list has neither 1 nor N+1 values"
        ELSE IF prm.use_plastic_strain_weakening /\ ~prm.use_strain_weakening
            THEN "plastic strain weakening needs strain weakening"
        ELSE IF prm.use_plastic_strain_weakening
                /\ ~compositional_name_exists(names, "plastic_strain")
            THEN "no compositional field called plastic_strain"
        ELSE IF prm.use_viscous_strain_weakening /\ ~prm.use_strain_weakening
            THEN "viscous strain weakening needs strain weakening"
        ELSE IF prm.use_viscous_strain_weakening
                /\ ~compositional_name_exists(names, "viscous_strain")
            THEN "no compositional field called viscous_strain"
        ELSE IF prm.use_finite_strain_tensor /\ Len(names) < s
            THEN "not enough compositional fields for the finite strain tensor"
        ELSE IF prm.use_finite_strain_tensor /\ ~prm.use_strain_weakening
            THEN "finite strain tensor needs strain weakening"
        ELSE IF prm.use_finite_strain_tensor /\ ~finite_strain_fields_ok(prm)
            THEN "finite strain tensor fields missing or out of order"
        ELSE IF prm.use_strain_weakening
                /\ ~prm.use_plastic_strain_weakening /\ ~prm.use_viscous_strain_weakening
                /\ ~prm.use_finite_strain_tensor
                /\ ~compositional_name_exists(names, "total_strain")
            THEN "no compositional field called total_strain"
        ELSE IF \E k \in 1..Len(lists) : ~list_length_ok(lists[k], n_fields)
            THEN "a list has neither 1 nor N+1 values"
        ELSE IF prm.use_fixed_spcrust_viscosity /\ ~compositional_name_exists(names, "spcrust")
            THEN "no compositional field called spcrust"
        ELSE IF prm.use_spcrust_density_change /\ ~compositional_name_exists(names, "spcrust")
            THEN "no compositional field called spcrust"
        ELSE ""

parse_error(prm) ==
    LET names == prm.field_names
        n_fields == Len(names) + 1
        s == n_independent_components(prm.dim)
        lists == per_phase_entries(prm)
        eos == equation_of_state_entries(prm)
    IN  IF \E k \in 1..Len(eos) : ~list_length_ok(eos[k], n_fields)
            THEN "a list has neither 1 nor N+1 values"
        ELSE IF prm.use_plastic_strain_weakening /\ ~prm.use_strain_weakening
            THEN "plastic strain weakening needs strain weakening"
        ELSE IF prm.use_plastic_strain_weakening
                /\ ~compositional_name_exists(names, "plastic_strain")
            THEN "no compositional field called plastic_strain"
        ELSE IF prm.use_viscous_strain_weakening /\ ~prm.use_strain_weakening
            THEN "viscous strain weakening needs strain weakening"
        ELSE IF prm.use_viscous_strain_weakening
                /\ ~compositional_name_exists(names, "viscous_strain")
            THEN "no compositional field called viscous_strain"
        ELSE IF prm.use_finite_strain_tensor /\ Len(names) < s
            THEN "not enough compositional fields for the finite strain tensor"
        ELSE IF prm.use_finite_strain_tensor /\ ~prm.use_strain_weakening
            THEN "finite strain tensor needs strain weakening"
        ELSE IF prm.use_finite_strain_tensor
                /\ (prm.use_plastic_strain_weakening \/ prm.use_viscous_strain_weakening)
            THEN "finite strain tensor excludes plastic and viscous strain weakening"
        ELSE IF prm.use_finite_strain_tensor /\ ~finite_strain_fields_ok(prm)
            THEN "finite strain tensor fields missing or out of order"
        ELSE IF prm.use_strain_weakening
                /\ ~prm.use_plastic_strain_weakening /\ ~prm.use_viscous_strain_weakening
                /\ ~prm.use_finite_strain_tensor
                /\ ~compositional_name_exists(names, "total_strain")
            THEN "no compositional field called total_strain"
        ELSE IF \E k \in 1..Len(lists) : ~list_length_ok(lists[k], n_fields)
            THEN "a list has neither 1 nor N+1 values"
        ELSE IF prm.use_fixed_spcrust_viscosity /\ ~compositional_name_exists(names, "spcrust")
            THEN "no compositional field called spcrust"
        ELSE IF prm.use_spcrust_density_change /\ ~compositional_name_exists(names, "spcrust")
            THEN "no compositional field called spcrust"
        ELSE ""

\* The member variables parse_parameters leaves behind (ok = FALSE: it threw).
parse_parameters(prm) ==
    LET n_fields == Len(prm.field_names) + 1
        ext(values) == possibly_extend_from_1_to_N(values, n_fields)
        degrees == ext(prm.angles_of_internal_friction)
    IN  IF parse_error(prm) # ""
        THEN [model |-> "visco plastic", ok |-> FALSE, error |-> parse_error(prm)]
        ELSE
        [model |-> "visco plastic", ok |-> TRUE,
         dim |-> prm.dim,
         field_names |-> prm.field_names,
         reference_T |-> prm.reference_temperature,
         min_strain_rate |-> prm.minimum_strain_rate,
         ref_strain_rate |-> prm.reference_strain_rate,
         min_visc |-> prm.minimum_viscosity,
         max_visc |-> prm.maximum_viscosity,
         thermal_diffusivities |-> ext(prm.thermal_diffusivities),
         heat_capacities |-> ext(prm.heat_capacities),
         densities |-> ext(prm.densities),
         thermal_expansivities |-> ext(prm.thermal_expansivities),
         grain_size |-> prm.grain_size,
         use_strain_weakening |-> prm.use_strain_weakening,
         use_plastic_strain_weakening |-> prm.use_plastic_strain_weakening,
         use_viscous_strain_weakening |-> prm.use_viscous_strain_weakening,
         use_finite_strain_tensor |-> prm.use_finite_strain_tensor,
         start_plastic_strain_weakening_intervals |->
             ext(prm.start_plasticity_strain_weakening_intervals),
         end_plastic_strain_weakening_intervals |->
             ext(prm.end_plasticity_strain_weakening_intervals),
         start_viscous_strain_weakening_intervals |->
             ext(prm.start_prefactor_strain_weakening_intervals),
         end_viscous_strain_weakening_intervals |->
             ext(prm.end_prefactor_strain_weakening_intervals),
         viscous_strain_weakening_factors |-> ext(prm.prefactor_strain_weakening_factors),
         cohesion_strain_weakening_factors |-> ext(prm.cohesion_strain_weakening_factors),
         friction_strain_weakening_factors |-> ext(prm.friction_strain_weakening_factors),
         viscosity_averaging |->
             IF prm.viscosity_averaging_scheme = "maximum composition"
             THEN "maximum_composition" ELSE prm.viscosity_averaging_scheme,
         viscous_flow_law |-> prm.viscous_flow_law,
         yield_mechanism |->
             IF prm.yield_mechanism = "drucker" THEN "drucker_prager" ELSE "stress_limiter",
         prefactors_diffusion |-> ext(prm.prefactors_for_diffusion_creep),
         grain_size_exponents_diffusion |-> ext(prm.grain_size_exponents_for_diffusion_creep),
         activation_energies_diffusion |-> ext(prm.activation_energies_for_diffusion_creep),
         activation_volumes_diffusion |-> ext(prm.activation_volumes_for_diffusion_creep),
         prefactors_dislocation |-> ext(prm.prefactors_for_dislocation_creep),
         stress_exponents_dislocation |-> ext(prm.stress_exponents_for_dislocation_creep),
         activation_energies_dislocation |-> ext(prm.activation_energies_for_dislocation_creep),
         activation_volumes_dislocation |-> ext(prm.activation_volumes_for_dislocation_creep),
         angles_internal_friction |->
             [i \in 1..n_fields |-> RMul(degrees[i], RDiv(PI, <<180, 1>>))],
         cohesions |-> ext(prm.cohesions),
         exponents_stress_limiter |-> ext(prm.stress_limiter_exponents),
         max_yield_strength |-> prm.maximum_yield_stress,
         use_fixed_spcrust_viscosity |-> prm.use_fixed_spcrust_viscosity,
         maximum_spcrust_viscosity |-> prm.maximum_spcrust_viscosity,
         spcrust_viscosity_minimum_pressure |->
             prm.minimum_transition_pressure_spcrust_viscosity,
         spcrust_viscosity_maximum_pressure |->
             prm.maximum_transition_pressure_spcrust_viscosity,
         use_spcrust_density_change |-> prm.use_spcrust_density_change,
         spcrust_density_change |-> prm.density_change_from_spcrust,
         spcrust_density_minimum_pressure |->
             prm.minimum_transition_pressure_spcrust_density,
         spcrust_density_maximum_pressure |->
             prm.maximum_transition_pressure_spcrust_density]

(***************************************************************************)
(* ViscoPlastic::calculate_plastic_weakening, calculate_viscous_weakening  *)
(* Phase index j of the code is j+1 here.                                  *)
(***************************************************************************)
\* cut_off_strain_ii = std::max(std::min(strain_ii, end), start)
cut_off_strain_ii(strain_ii, start, end) == RMax(RMin(strain_ii, end), start)

\* mutant: the denominator is (end - start)
strain_fraction_end_minus_start(strain_ii, start, end) ==
    RDiv(RSub(cut_off_strain_ii(strain_ii, start, end), start), RSub(end, start))

\* strain_fraction = (cut_off_strain_ii - start) / (start - end)
strain_fraction(strain_ii, start, end) ==
    RDiv(RSub(cut_off_strain_ii(strain_ii, start, end), start), RSub(start, end))

\* mutant: the strain is not cut off at the end of the interval
calculate_plastic_weakening_no_cut_off(c, strain_ii, j) ==
    LET start == c.start_plastic_strain_weakening_intervals[j]
        end == c.end_plastic_strain_weakening_intervals[j]
        f == RDiv(RSub(RMax(strain_ii, start), start), RSub(start, end))
        coh == c.cohesions[j]
        phi == c.angles_internal_friction[j]
    IN  [first |-> RAdd(coh, RMul(RSub(coh, RMul(coh, c.cohesion_strain_weakening_factors[j])), f)),
         second |-> RAdd(phi, RMul(RSub(phi, RMul(phi, c.friction_strain_weakening_factors[j])), f)),
         strain_fraction |-> f]

\* returns std::make_pair(current_coh, current_phi); strain_fraction is the
\* local of that name
calculate_plastic_weakening(c, strain_ii, j) ==
    LET f == strain_fraction(strain_ii,
                             c.start_plastic_strain_weakening_intervals[j],
                             c.end_plastic_strain_weakening_intervals[j])
        coh == c.cohesions[j]
        phi == c.angles_internal_friction[j]
    IN  [first |-> RAdd(coh, RMul(RSub(coh, RMul(coh, c.cohesion_strain_weakening_factors[j])), f)),
         second |-> RAdd(phi, RMul(RSub(phi, RMul(phi, c.friction_strain_weakening_factors[j])), f)),
         strain_fraction |-> f]

\* returns weakening; strain_fraction is the local of that name
calculate_viscous_weakening(c, strain_ii, j) ==
    LET f == strain_fraction(strain_ii,
                             c.start_viscous_strain_weakening_intervals[j],
                             c.end_viscous_strain_weakening_intervals[j])
    IN  [weakening |-> RAdd(One, RMul(RSub(One, c.viscous_strain_weakening_factors[j]), f)),
         strain_fraction |-> f]

\* parameter files with strain weakening: a total_strain field and one more
\* material, intervals that do not start at 0, factors below 1
WeakeningBase ==
    [declare_parameters EXCEPT
        !.field_names = <<"total_strain", "c1">>,
        !.use_strain_weakening = TRUE,
        !.cohesions = <<<<4, 1>>, <<4, 1>>, <<6, 1>>>>,
        !.angles_of_internal_friction = <<<<30, 1>>, <<30, 1>>, <<45, 1>>>>,
        !.maximum_yield_stress = <<1000, 1>>]

WeakeningParameterFiles ==
    {[WeakeningBase EXCEPT
        !.start_plasticity_strain_weakening_intervals = <<iv[1]>>,
        !.end_plasticity_strain_weakening_intervals = <<iv[2]>>,
        !.start_prefactor_strain_weakening_intervals = <<iv[1], iv[1], Zero>>,
        !.end_prefactor_strain_weakening_intervals = <<iv[2], iv[2], Two>>,
        !.cohesion_strain_weakening_factors = <<k[1]>>,
        !.friction_strain_weakening_factors = <<k[2]>>,
        !.prefactor_strain_weakening_factors = <<k[3]>>] :
      iv \in {<<Zero, One>>, <<Half, Rat(3, 2)>>, <<One, Half>>},
      k \in {<<One, One, One>>, <<Half, Rat(1, 4), Half>>,
             <<Zero, Half, Rat(1, 4)>>, <<Rat(1, 4), Zero, Zero>>}}

\* accumulated strains tried: below, inside, at the ends of and beyond the intervals
StrainValues ==
    {Rat(-1, 2), Zero, Rat(1, 4), Half, Rat(3, 4), One, Rat(5, 4), Rat(3, 2), Two, <<3, 1>>}

InitWeak ==
    /\ \E prm \in WeakeningParameterFiles :
           /\ parse_error(prm) = ""
           /\ cfg = parse_parameters(prm)
    /\ \E op \in {"calculate_plastic_weakening", "calculate_viscous_weakening"} :
       \E e \in StrainValues :
       \E j \in 1..3 :
           call = Pending(op, [strain_ii |-> e, j |-> j])

CallCalculatePlasticWeakening ==
    /\ call.op = "calculate_plastic_weakening" /\ ~call.done
    /\ call' = Returned(call, calculate_plastic_weakening(cfg, call.in.strain_ii, call.in.j))
    /\ UNCHANGED cfg

CallCalculateViscousWeakening ==
    /\ call.op = "calculate_viscous_weakening" /\ ~call.done
    /\ call' = Returned(call, calculate_viscous_weakening(cfg, call.in.strain_ii, call.in.j))
    /\ UNCHANGED cfg

NextWeak == CallCalculatePlasticWeakening \/ CallCalculateViscousWeakening

SpecWeak == InitWeak /\ [][NextWeak]_vars

IsPlasticWeak == call.op = "calculate_plastic_weakening" /\ call.done
IsViscousWeak == call.op = "calculate_viscous_weakening" /\ call.done

\* value * (1 - (1-k) * (e-start)/(end-start))
LinearlyWeakened(value, k, e, start, end) ==
    RMul(value, RSub(One, RMul(RSub(One, k), RDiv(RSub(e, start), RSub(end, start)))))

\* C9: with start < end and factor k, calculate_plastic_weakening returns the
\* unweakened cohesion and friction angle for e_ii <= start, value*k for
\* e_ii >= end and value*(1 - (1-k)*(e_ii-start)/(end-start)) in between;
\* calculate_viscous_weakening returns 1 for e_ii <= start and k for e_ii >= end.
C9_WeakeningBoundaries ==
    LET e == call.in.strain_ii
        j == call.in.j
    IN  /\ (IsPlasticWeak
            /\ RLt(cfg.start_plastic_strain_weakening_intervals[j],
                   cfg.end_plastic_strain_weakening_intervals[j]))
           => LET start == cfg.start_plastic_strain_weakening_intervals[j]
                  end == cfg.end_plastic_strain_weakening_intervals[j]
                  coh == cfg.cohesions[j]
                  phi == cfg.angles_internal_friction[j]
                  kc == cfg.cohesion_strain_weakening_factors[j]
                  kf == cfg.friction_strain_weakening_factors[j]
              IN  /\ RLe(e, start) => call.out.first = coh /\ call.out.second = phi
                  /\ RGe(e, end) => /\ call.out.first = RMul(coh, kc)
                                    /\ call.out.second = RMul(phi, kf)
                  /\ (RLt(start, e) /\ RLt(e, end)) =>
                         /\ call.out.first = LinearlyWeakened(coh, kc, e, start, end)
                         /\ call.out.second = LinearlyWeakened(phi, kf, e, start, end)
        /\ (IsViscousWeak
            /\ RLt(cfg.start_viscous_strain_weakening_intervals[j],
                   cfg.end_viscous_strain_weakening_intervals[j]))
           => /\ RLe(e, cfg.start_viscous_strain_weakening_intervals[j])
                    => call.out.weakening = One
              /\ RGe(e, cfg.end_viscous_strain_weakening_intervals[j])
                    => call.out.weakening = cfg.viscous_strain_weakening_factors[j]

\* a strain strictly inside an interval that does not start at 0, with a
\* cohesion that is weakened part of the way
C9_Witness ==
    /\ IsPlasticWeak
    /\ RLt(Zero, cfg.start_plastic_strain_weakening_intervals[call.in.j])
    /\ RLt(cfg.start_plastic_strain_weakening_intervals[call.in.j], call.in.strain_ii)
    /\ RLt(call.in.strain_ii, cfg.end_plastic_strain_weakening_intervals[call.in.j])
    /\ RLt(call.out.first, cfg.cohesions[call.in.j])
    /\ RLt(RMul(cfg.cohesions[call.in.j], cfg.cohesion_strain_weakening_factors[call.in.j]),
           call.out.first)

\* the interval of the call that returned
WeakStart ==
    IF IsPlasticWeak THEN cfg.start_plastic_strain_weakening_intervals[call.in.j]
    ELSE cfg.start_viscous_strain_weakening_intervals[call.in.j]
WeakEnd ==
    IF IsPlasticWeak THEN cfg.end_plastic_strain_weakening_intervals[call.in.j]
    ELSE cfg.end_viscous_strain_weakening_intervals[call.in.j]

\* C10 as stated: with end > start the interpolation fraction lies in [0,1],
\* is 0 at e_ii = start and 1 at e_ii = end.
C10_FractionInZeroOne ==
    ((IsPlasticWeak \/ IsViscousWeak) /\ RLt(WeakStart, WeakEnd))
    => /\ RLe(Zero, call.out.strain_fraction) /\ RLe(call.out.strain_fraction, One)
       /\ call.in.strain_ii = WeakStart => call.out.strain_fraction = Zero
       /\ call.in.strain_ii = WeakEnd => call.out.strain_fraction = One

\* C10 amended: with end > start the interpolation fraction lies in [-1,0],
\* is 0 for e_ii <= start and -1 for e_ii >= end, and equals
\* -(e_ii - start)/(end - start) in between (it falls as the strain rises).
C10_FractionInMinusOneZero ==
    ((IsPlasticWeak \/ IsViscousWeak) /\ RLt(WeakStart, WeakEnd))
    => LET f == call.out.strain_fraction
           e == call.in.strain_ii
       IN  /\ RLe(RNeg(One), f) /\ RLe(f, Zero)
           /\ RLe(e, WeakStart) => f = Zero
           /\ RGe(e, WeakEnd) => f = RNeg(One)
           /\ (RLt(WeakStart, e) /\ RLt(e, WeakEnd))
                  => f = RNeg(RDiv(RSub(e, WeakStart), RSub(WeakEnd, WeakStart)))

\* a strain strictly inside an interval, with a fraction strictly inside (-1,0)
C10_Witness ==
    /\ IsViscousWeak
    /\ RLt(WeakStart, call.in.strain_ii) /\ RLt(call.in.strain_ii, WeakEnd)
    /\ RLt(RNeg(One), call.out.strain_fraction)
    /\ RLt(call.out.strain_fraction, Zero)

(***************************************************************************)
(* <cmath>: std::sin, std::cos, std::log10 ; deal.II tensors               *)
(***************************************************************************)
\* std::sin : Bhaskara's 16x(pi-x) / (5pi^2 - 4x(pi-x)) on [0, pi], odd and
\* 2pi-periodic outside
RECURSIVE Sin(_)
Sin(x) ==
    IF ~IsFinite(x) THEN NaN
    ELSE IF RLt(x, Zero) THEN RNeg(Sin(RNeg(x)))
    ELSE IF RGt(x, PI) THEN RNeg(Sin(RSub(x, PI)))
    ELSE LET p == RMul(x, RSub(PI, x))
         IN  RDiv(RMul(<<16, 1>>, p),
                  RSub(RMul(<<5, 1>>, RMul(PI, PI)), RMul(<<4, 1>>, p)))

\* std::cos
Cos(x) == Sin(RAdd(x, RMul(PI, Half)))

\* std::log10
Log10(x) == RDiv(Log2(x), Log2(<<10, 1>>))

\* A Tensor<2,dim> or SymmetricTensor<2,dim> is the sequence of its rows.
trace(t) == RSum([i \in 1..Len(t) |-> t[i][i]])

\* deviator(t) = t - trace(t)/dim * I
deviator(t) ==
    LET tr == RDiv(trace(t), <<Len(t), 1>>)
    IN  [i \in 1..Len(t) |->
            [k \in 1..Len(t) |-> IF i = k THEN RSub(t[i][k], tr) ELSE t[i][k]]]

\* second_invariant of a symmetric tensor
second_invariant(t) ==
    IF Len(t) = 2
    THEN RSub(RMul(t[1][1], t[2][2]), RMul(t[1][2], t[1][2]))
    ELSE RSub(RSub(RSub(RAdd(RAdd(RMul(t[1][1], t[2][2]), RMul(t[2][2], t[3][3])),
                             RMul(t[3][3], t[1][1])),
                        RMul(t[1][2], t[1][2])),
                   RMul(t[1][3], t[1][3])),
              RMul(t[2][3], t[2][3]))

\* t.norm() <= std::numeric_limits<double>::min() : of the rationals used
\* here only a tensor whose entries are all 0 has so small a Frobenius norm
norm_at_most_min(t) == \A i, k \in 1..Len(t) : t[i][k] = Zero

\* strain[unrolled_to_component_indices(q)] = composition[q], row by row
unrolled_tensor(composition, dim) ==
    [i \in 1..dim |-> [k \in 1..dim |-> composition[(i - 1) * dim + k]]]

\* symmetrize(strain * transpose(strain))
left_stretching_tensor(strain) ==
    LET dim == Len(strain)
        prod(i, k) == RSum([m \in 1..dim |-> RMul(strain[i][m], strain[k][m])])
    IN  [i \in 1..dim |->
            [k \in 1..dim |-> RMul(Half, RAdd(prod(i, k), prod(k, i)))]]

(***************************************************************************)
(* ViscoPlastic::calculate_isostrain_viscosities                           *)
(*                                                                         *)
(* in is the record of the arguments (volume_fractions, pressure,          *)
(* temperature, composition, strain_rate, viscous_type, yield_type) and of *)
(* what the function reads from the simulator (timestep_number).  Phase    *)
(* index j of the code is j+1 here.                                        *)
(***************************************************************************)
edot_ii(c, in) ==
    IF in.timestep_number = 0 /\ norm_at_most_min(in.strain_rate)
    THEN c.ref_strain_rate
    ELSE RMax(Sqrt(RAbs(second_invariant(deviator(in.strain_rate)))), c.min_strain_rate)

\* composition[compositional_index_for_name(name)]
composition_named(c, in, name) ==
    in.composition[compositional_index_for_name(c.field_names, name) + 1]

\* strain_ii as passed to calculate_plastic_weakening
plastic_strain_ii(c, in) ==
    IF c.use_finite_strain_tensor
    THEN RAbs(second_invariant(left_stretching_tensor(unrolled_tensor(in.composition, c.dim))))
    ELSE IF c.use_plastic_strain_weakening THEN composition_named(c, in, "plastic_strain")
    ELSE IF ~c.use_viscous_strain_weakening THEN composition_named(c, in, "total_strain")
    ELSE Zero

\* strain_ii as passed to calculate_viscous_weakening
viscous_strain_ii(c, in) ==
    IF c.use_viscous_strain_weakening THEN composition_named(c, in, "viscous_strain")
    ELSE plastic_strain_ii(c, in)

\* mutant: the pressure term is subtracted
drucker_prager_yield_strength_minus(dim, coh, phi, pressure) ==
    IF dim = 3
    THEN RDiv(RSub(RMul(<<6, 1>>, RMul(coh, Cos(phi))),
                   RMul(<<6, 1>>, RMul(RMax(pressure, Zero), Sin(phi)))),
              RMul(Sqrt(<<3, 1>>), RAdd(<<3, 1>>, Sin(phi))))
    ELSE RSub(RMul(coh, Cos(phi)), RMul(RMax(pressure, Zero), Sin(phi)))

\* the Drucker Prager yield strength before max_yield_strength limits it
drucker_prager_yield_strength(dim, coh, phi, pressure) ==
    IF dim = 3
    THEN RDiv(RAdd(RMul(<<6, 1>>, RMul(coh, Cos(phi))),
                   RMul(<<6, 1>>, RMul(RMax(pressure, Zero), Sin(phi)))),
              RMul(Sqrt(<<3, 1>>), RAdd(<<3, 1>>, Sin(phi))))
    ELSE RAdd(RMul(coh, Cos(phi)), RMul(RMax(pressure, Zero), Sin(phi)))

\* yield_strength once std::min(yield_strength, max_yield_strength) limits it
limited_yield_strength(c, coh, phi, pressure) ==
    RMin(drucker_prager_yield_strength(c.dim, coh, phi, pressure), c.max_yield_strength)

\* the pressure range over which the spcrust is strong
spcrust_transition(c, in) ==
    /\ RGt(in.pressure, c.spcrust_viscosity_minimum_pressure)
    /\ RLt(in.pressure, c.spcrust_viscosity_maximum_pressure)

\* viscosity_pre_yield after the block for composition spcrust
spcrust_viscosity(c, in, j, viscosity_pre_yield) ==
    IF c.use_fixed_spcrust_viscosity
       /\ j - 1 = compositional_index_for_name(c.field_names, "spcrust") + 1
    THEN IF RLe(in.pressure, c.spcrust_viscosity_minimum_pressure)
         THEN RMin(c.maximum_spcrust_viscosity, viscosity_pre_yield)
         ELSE IF spcrust_transition(c, in)
         THEN RMin(RMul(c.maximum_spcrust_viscosity,
                        Pow(<<10, 1>>,
                            RDiv(RMul(RSub(in.pressure, c.spcrust_viscosity_minimum_pressure),
                                      RSub(Log10(c.max_visc),
                                           Log10(c.maximum_spcrust_viscosity))),
                                 RSub(c.spcrust_viscosity_maximum_pressure,
                                      c.spcrust_viscosity_minimum_pressure)))),
                   viscosity_pre_yield)
         ELSE viscosity_pre_yield
    ELSE viscosity_pre_yield

\* Diffusion creep: 0.5 / A * exp((E + P*V)/(R*T)) * d^m
viscosity_diffusion(c, in, j) ==
    RMul(RMul(RDiv(Half, c.prefactors_diffusion[j]),
              Exp(RDiv(RAdd(c.activation_energies_diffusion[j],
                            RMul(in.pressure, c.activation_volumes_diffusion[j])),
                       RMul(gas_constant, in.temperature)))),
         Pow(c.grain_size, c.grain_size_exponents_diffusion[j]))

\* Dislocation creep: 0.5 * A^(-1/n) * exp((E + P*V)/(R*T*n)) * edot_ii^((1-n)/n)
viscosity_dislocation(c, in, j, edot) ==
    LET n == c.stress_exponents_dislocation[j]
    IN  RMul(RMul(RMul(Half, Pow(c.prefactors_dislocation[j], RDiv(RNeg(One), n))),
                  Exp(RDiv(RAdd(c.activation_energies_dislocation[j],
                                RMul(in.pressure, c.activation_volumes_dislocation[j])),
                           RMul(RMul(gas_constant, in.temperature), n)))),
             Pow(edot, RDiv(RSub(One, n), n)))

viscosity_composite(diffusion, dislocation) ==
    RDiv(RMul(diffusion, dislocation), RAdd(diffusion, dislocation))

\* switch (viscous_type)
\* mutant: the diffusion and dislocation cases are exchanged
viscosity_flow_law_exchanged(viscous_type, diffusion, dislocation) ==
    CASE viscous_type = "diffusion" -> dislocation
      [] viscous_type = "dislocation" -> diffusion
      [] viscous_type = "composite" -> viscosity_composite(diffusion, dislocation)

viscosity_flow_law(viscous_type, diffusion, dislocation) ==
    CASE viscous_type = "diffusion" -> diffusion
      [] viscous_type = "dislocation" -> dislocation
      [] viscous_type = "composite" -> viscosity_composite(diffusion, dislocation)

\* coh, phi and viscous_weakening after the strain weakening block
weakened(weakening, viscous_weakening) ==
    [coh |-> weakening.first, phi |-> weakening.second,
     viscous_weakening |-> viscous_weakening]

strain_weakening(c, in, j) ==
    IF c.use_strain_weakening
    THEN weakened(calculate_plastic_weakening(c, plastic_strain_ii(c, in), j),
                  calculate_viscous_weakening(c, viscous_strain_ii(c, in), j).weakening)
    ELSE [coh |-> c.cohesions[j], phi |-> c.angles_internal_friction[j],
          viscous_weakening |-> One]

\* viscous_stress = 2 * viscosity_pre_yield * edot_ii
viscous_stress(viscosity_pre_yield, edot) == RMul(Two, RMul(viscosity_pre_yield, edot))

\* if (viscous_stress >= yield_strength)
yielding(viscosity_pre_yield, edot, yield_strength) ==
    RGe(viscous_stress(viscosity_pre_yield, edot), yield_strength)

\* mutant: the viscosity is never rescaled to the yield surface
viscosity_drucker_prager_not_rescaled(viscosity_pre_yield, edot, yield_strength) ==
    viscosity_pre_yield

viscosity_drucker_prager(viscosity_pre_yield, edot, yield_strength) ==
    IF yielding(viscosity_pre_yield, edot, yield_strength)
    THEN RDiv(yield_strength, RMul(Two, edot))
    ELSE viscosity_pre_yield

viscosity_limiter(c, j, edot, yield_strength) ==
    RMul(RDiv(yield_strength, RMul(Two, c.ref_strain_rate)),
         Pow(RDiv(edot, c.ref_strain_rate),
             RSub(RDiv(One, c.exponents_stress_limiter[j]), One)))

\* a variant of the switch in which the stress limiter alone sets the
\* viscosity
viscosity_yield_limiter_alone(c, yield_type, j, edot, viscosity_pre_yield, yield_strength) ==
    CASE yield_type = "stress_limiter" -> viscosity_limiter(c, j, edot, yield_strength)
      [] yield_type = "drucker_prager" ->
             viscosity_drucker_prager(viscosity_pre_yield, edot, yield_strength)

\* switch (yield_type)
viscosity_yield(c, yield_type, j, edot, viscosity_pre_yield, yield_strength) ==
    CASE yield_type = "stress_limiter" ->
             RDiv(One, RAdd(RDiv(One, viscosity_limiter(c, j, edot, yield_strength)),
                            RDiv(One, viscosity_pre_yield)))
      [] yield_type = "drucker_prager" ->
             viscosity_drucker_prager(viscosity_pre_yield, edot, yield_strength)

\* mutant: only the lower bound is applied
limit_viscosity_below_only(c, viscosity) == RMax(viscosity, c.min_visc)

\* std::min(std::max(viscosity_yield, min_visc), max_visc)
limit_viscosity(c, viscosity) == RMin(RMax(viscosity, c.min_visc), c.max_visc)

\* The local variables of one pass of the loop over the phases when the pass
\* ends; the pass is split where a local variable is used more than once.
phase_locals(c, edot, w, viscosity_pre_yield, yield_strength, viscosity) ==
    [edot_ii |-> edot,
     viscosity_pre_yield |-> viscosity_pre_yield,
     coh |-> w.coh,
     phi |-> w.phi,
     viscous_weakening |-> w.viscous_weakening,
     viscous_stress |-> viscous_stress(viscosity_pre_yield, edot),
     yield_strength |-> yield_strength,
     viscosity_yield |-> viscosity,
     composition_viscosity |-> limit_viscosity(c, viscosity),
     composition_yielding |->
         IF yielding(viscosity_pre_yield, edot, yield_strength) THEN One ELSE Zero]

phase_yield(c, in, j, edot, w, viscosity_pre_yield, yield_strength) ==
    phase_locals(c, edot, w, viscosity_pre_yield, yield_strength,
                 viscosity_yield(c, in.yield_type, j, edot, viscosity_pre_yield,
                                 yield_strength))

phase_pre_yield(c, in, j, edot, w) ==
    phase_yield(c, in, j, edot, w,
                spcrust_viscosity(c, in, j,
                    RMul(viscosity_flow_law(in.viscous_type,
                                            viscosity_diffusion(c, in, j),
                                            viscosity_dislocation(c, in, j, edot)),
                         w.viscous_weakening)),
                limited_yield_strength(c, w.coh, w.phi, in.pressure))

isostrain_phase(c, in, j) ==
    phase_pre_yield(c, in, j, edot_ii(c, in), strain_weakening(c, in, j))

\* std::make_pair(composition_viscosities, composition_yielding); locals
\* keeps, per phase, the local variables of the loop
make_pair(phases) ==
    [first |-> [j \in 1..Len(phases) |-> phases[j].composition_viscosity],
     second |-> [j \in 1..Len(phases) |-> phases[j].composition_yielding],
     locals |-> phases]

calculate_isostrain_viscosities(c, in) ==
    make_pair([j \in 1..Len(in.volume_fractions) |-> isostrain_phase(c, in, j)])

\* Parameter files: the defaults; a reference strain rate below the minimum
\* strain rate; diffusion creep with either yield mechanism; two materials with friction and a maximum yield stress within
\* reach; the same in 3-D; each mode of strain weakening; a fixed spcrust
\* viscosity.
FrictionParameterFile ==
    [declare_parameters EXCEPT
        !.cohesions = <<One, Two>>,
        !.angles_of_internal_friction = <<<<30, 1>>, Zero>>,
        !.stress_limiter_exponents = <<Two>>,
        !.maximum_yield_stress = Rat(5, 4),
        !.maximum_viscosity = <<4, 1>>]

TotalStrainParameterFile ==
    [declare_parameters EXCEPT
        !.field_names = <<"total_strain">>,
        !.use_strain_weakening = TRUE,
        !.cohesions = <<Two>>,
        !.angles_of_internal_friction = <<<<30, 1>>>>,
        !.maximum_yield_stress = <<4, 1>>,
        !.prefactor_strain_weakening_factors = <<Half>>,
        !.cohesion_strain_weakening_factors = <<Half>>,
        !.friction_strain_weakening_factors = <<Zero>>]

\* diffusion creep alone, with a yield stress out of reach
DiffusionParameterFile ==
    [declare_parameters EXCEPT
        !.viscous_flow_law = "diffusion",
        !.maximum_yield_stress = <<1000, 1>>]

BaseParameterFiles ==
    {declare_parameters,
     [declare_parameters EXCEPT !.reference_strain_rate = Rat(1, 32)],
     DiffusionParameterFile,
     [DiffusionParameterFile EXCEPT
         !.yield_mechanism = "limiter",
         !.stress_limiter_exponents = <<Two>>],
     FrictionParameterFile,
     [FrictionParameterFile EXCEPT !.dim = 3],
     TotalStrainParameterFile,
     [TotalStrainParameterFile EXCEPT !.field_names = <<"crust", "total_strain">>],
     [TotalStrainParameterFile EXCEPT
         !.field_names = <<"plastic_strain", "viscous_strain">>,
         !.use_plastic_strain_weakening = TRUE,
         !.use_viscous_strain_weakening = TRUE,
         !.start_prefactor_strain_weakening_intervals = <<Half>>,
         !.end_prefactor_strain_weakening_intervals = <<Rat(3, 2)>>],
     [TotalStrainParameterFile EXCEPT
         !.field_names = <<"plastic_strain">>,
         !.use_plastic_strain_weakening = TRUE],
     [TotalStrainParameterFile EXCEPT
         !.field_names = <<"viscous_strain">>,
         !.use_viscous_strain_weakening = TRUE],
     [TotalStrainParameterFile EXCEPT
         !.field_names = <<"s11", "s12", "s21", "s22">>,
         !.use_finite_strain_tensor = TRUE],
     [TotalStrainParameterFile EXCEPT
         !.field_names = <<"crust", "s11", "s12", "s21", "s22">>,
         !.use_finite_strain_tensor = TRUE],
     [FrictionParameterFile EXCEPT
         !.field_names = <<"spcrust">>,
         !.use_fixed_spcrust_viscosity = TRUE,
         !.maximum_viscosity = <<64, 1>>,
         !.maximum_spcrust_viscosity = <<4, 1>>,
         !.maximum_transition_pressure_spcrust_viscosity = Two]}

\* every flow law and yield mechanism, for the files without and with weakening
ParameterFiles ==
    BaseParameterFiles
    \cup {[prm EXCEPT !.viscous_flow_law = law, !.yield_mechanism = mechanism] :
            prm \in {FrictionParameterFile, TotalStrainParameterFile},
            law \in {"diffusion", "dislocation", "composite"},
            mechanism \in {"drucker", "limiter"}}

PressureValues == {Rat(-1, 1), Zero, One, Two}

TemperatureValues == {Zero, One, Two}

TimestepNumbers == {0, 1}

\* strain rates: none, pure shear of rate 1, simple shear below min_strain_rate
StrainRates(dim) ==
    IF dim = 2
    THEN {<<<<Zero, Zero>>, <<Zero, Zero>>>>,
          <<<<One, Zero>>, <<Zero, RNeg(One)>>>>,
          <<<<Zero, Rat(1, 32)>>, <<Rat(1, 32), Zero>>>>}
    ELSE {<<<<Zero, Zero, Zero>>, <<Zero, Zero, Zero>>, <<Zero, Zero, Zero>>>>,
          <<<<One, Zero, Zero>>, <<Zero, RNeg(One), Zero>>, <<Zero, Zero, Zero>>>>,
          <<<<Zero, Rat(1, 32), Zero>>, <<Rat(1, 32), Zero, Zero>>, <<Zero, Zero, Zero>>>>}

\* compositions: for the finite strain tensor no strain, a stretch and a
\* shear; otherwise every field 0, 1/2 or 2
Compositions(c) ==
    IF c.use_finite_strain_tensor
    THEN LET n_first == compositional_index_for_name(c.field_names, "s11")
         IN  {[f \in 1..Len(c.field_names) |->
                  IF f > n_first /\ f <= n_first + Len(strain)
                  THEN strain[f - n_first] ELSE Half] :
                  strain \in {<<Zero, Zero, Zero, Zero>>, <<One, Zero, Zero, One>>,
                              <<One, Half, Zero, One>>, <<Two, Zero, Zero, One>>,
                              <<One, Zero, Half, One>>}}
    ELSE [1..Len(c.field_names) -> {Zero, Half, Two}]

\* the background material alone
BackgroundOnly(n_fields) == [j \in 1..n_fields |-> IF j = 1 THEN One ELSE Zero]

InitIso ==
    /\ \E prm \in ParameterFiles :
           /\ parse_error(prm) = ""
           /\ cfg = parse_parameters(prm)
    /\ \E pressure \in PressureValues :
       \E temperature \in TemperatureValues :
       \E composition \in Compositions(cfg) :
       \E strain_rate \in StrainRates(cfg.dim) :
       \E timestep_number \in TimestepNumbers :
           call = Pending("calculate_isostrain_viscosities",
                          [volume_fractions |-> BackgroundOnly(Len(cfg.field_names) + 1),
                           pressure |-> pressure,
                           temperature |-> temperature,
                           composition |-> composition,
                           strain_rate |-> strain_rate,
                           viscous_type |-> cfg.viscous_flow_law,
                           yield_type |-> cfg.yield_mechanism,
                           timestep_number |-> timestep_number])

CallCalculateIsostrainViscosities ==
    /\ call.op = "calculate_isostrain_viscosities" /\ ~call.done
    /\ call' = Returned(call, calculate_isostrain_viscosities(cfg, call.in))
    /\ UNCHANGED cfg

NextIso == CallCalculateIsostrainViscosities

SpecIso == InitIso /\ [][NextIso]_vars

IsIso == call.op = "calculate_isostrain_viscosities" /\ call.done

\* the phases of the call that returned
Phases == 1..Len(call.in.volume_fractions)

\* C6 as stated: every per-phase viscosity calculate_isostrain_viscosities
\* returns lies within [min_visc, max_visc] (min_visc <= max_visc configured),
\* whatever the strain rate, pressure, temperature, composition, flow law,
\* yield mechanism and weakening mode.
C6_ViscosityWithinBounds ==
    (IsIso /\ RLe(cfg.min_visc, cfg.max_visc))
    => \A j \in Phases :
           /\ RLe(cfg.min_visc, call.out.first[j])
           /\ RLe(call.out.first[j], cfg.max_visc)

\* C6 amended: a per-phase viscosity lies within [min_visc, max_visc] whenever
\* the viscosity before limiting is not NaN; a NaN before limiting is returned
\* as NaN.
C6_ViscosityWithinBoundsUnlessNaN ==
    (IsIso /\ RLe(cfg.min_visc, cfg.max_visc))
    => \A j \in Phases :
           IF IsNaN(call.out.locals[j].viscosity_yield)
           THEN IsNaN(call.out.first[j])
           ELSE /\ RLe(cfg.min_visc, call.out.first[j])
                /\ RLe(call.out.first[j], cfg.max_visc)

\* a viscosity above max_visc before limiting, returned as max_visc
C6_Witness ==
    /\ IsIso
    /\ \E j \in Phases :
           /\ RGt(call.out.locals[j].viscosity_yield, cfg.max_visc)
           /\ call.out.first[j] = cfg.max_visc

\* C7 as stated: in 2-D, for a phase with cohesion C, internal friction
\* angle 0 and a pressure P >= 0, the yield stress the viscous stress is
\* compared against equals C, in every configuration, the default cohesion
\* and default maximum yield stress included.
C7_YieldStressEqualsCohesion ==
    (IsIso /\ cfg.dim = 2 /\ RGe(call.in.pressure, Zero))
    => \A j \in Phases :
           call.out.locals[j].phi = Zero
           => call.out.locals[j].yield_strength = call.out.locals[j].coh

\* the default parameter file at pressure 0: cohesion 1e20 Pa, yield stress
\* 1e12 Pa, the default maximum yield stress
C7_Witness ==
    /\ IsIso /\ cfg.dim = 2 /\ call.in.pressure = Zero
    /\ cfg.cohesions[1] = <<DefaultCohesion, 1>>
    /\ cfg.max_yield_strength = <<DefaultMaxYieldStress, 1>>
    /\ call.out.locals[1].phi = Zero
    /\ call.out.locals[1].coh = <<DefaultCohesion, 1>>
    /\ call.out.locals[1].yield_strength = <<DefaultMaxYieldStress, 1>>

C12_StrainRateAtLeastMinimum ==
    IsIso => \A j \in Phases : RGe(call.out.locals[j].edot_ii, cfg.min_strain_rate)

\* the first evaluation with a reference strain rate below the minimum
C12_Witness ==
    /\ IsIso /\ call.in.timestep_number = 0
    /\ norm_at_most_min(call.in.strain_rate)
    /\ call.out.locals[1].edot_ii = cfg.ref_strain_rate
    /\ RLt(call.out.locals[1].edot_ii, cfg.min_strain_rate)

\* what does hold: off the first evaluation edot_ii is at least min_strain_rate
EdotFloorOffFirstEvaluation ==
    (IsIso /\ ~(call.in.timestep_number = 0 /\ norm_at_most_min(call.in.strain_rate)))
    => \A j \in Phases : RGe(call.out.locals[j].edot_ii, cfg.min_strain_rate)

\* phases that yield in neither of two results have the same viscosity in both
SameViscosityWhereNotYielding(a, b) ==
    \A j \in 1..Len(a.first) :
        (a.second[j] = Zero /\ b.second[j] = Zero) => a.first[j] = b.first[j]

\* the flow law is diffusion creep and strain weakening is off
DiffusionNoWeakening ==
    IsIso /\ call.in.viscous_type = "diffusion" /\ ~cfg.use_strain_weakening

\* C13 as stated: with the diffusion flow law, strain weakening off and a
\* yield stress that is not reached, the per-phase viscosity is the same for
\* any two strain-rate tensors at equal pressure, temperature and composition.
C13_StrainRateIndependent ==
    DiffusionNoWeakening
    => \A other \in StrainRates(cfg.dim) :
           SameViscosityWhereNotYielding(
               call.out,
               calculate_isostrain_viscosities(cfg, [call.in EXCEPT !.strain_rate = other]))

\* C13 amended: the same under the Drucker-Prager yield mechanism (the stress
\* limiter mixes a strain-rate dependent viscosity into every phase).
C13_StrainRateIndependentDruckerPrager ==
    (DiffusionNoWeakening /\ call.in.yield_type = "drucker_prager")
    => \A other \in StrainRates(cfg.dim) :
           SameViscosityWhereNotYielding(
               call.out,
               calculate_isostrain_viscosities(cfg, [call.in EXCEPT !.strain_rate = other]))

\* two strain rates with different invariants, neither yielding, one viscosity
C13_Witness ==
    /\ DiffusionNoWeakening /\ call.in.yield_type = "drucker_prager"
    /\ call.out.second[1] = Zero
    /\ IsFinite(call.out.locals[1].viscosity_yield)
    /\ \E other \in StrainRates(cfg.dim) :
           LET b == calculate_isostrain_viscosities(cfg, [call.in EXCEPT !.strain_rate = other])
           IN  /\ b.locals[1].edot_ii # call.out.locals[1].edot_ii
               /\ b.second[1] = Zero
               /\ b.first[1] = call.out.first[1]

\* the arguments of the call with one compositional field given another value
WithField(name, x) ==
    [call.in EXCEPT
        !.composition[compositional_index_for_name(cfg.field_names, name) + 1] = x]

\* values a strain field is given in place of the one of the call
FieldValues == {Zero, Half, Two}

\* two results agree on the weakened cohesion and friction angle of every phase
SamePlasticWeakening(a, b) ==
    \A j \in 1..Len(a.locals) :
        a.locals[j].coh = b.locals[j].coh /\ a.locals[j].phi = b.locals[j].phi

\* two results agree on the viscous weakening factor of every phase
SameViscousWeakening(a, b) ==
    \A j \in 1..Len(a.locals) :
        a.locals[j].viscous_weakening = b.locals[j].viscous_weakening

\* C14 as stated: in the separate plastic/viscous strain mode (plastic strain
\* weakening, viscous strain weakening or both enabled) the value of
\* plastic_strain has no effect on the viscous weakening factor and the value
\* of viscous_strain has no effect on the weakened cohesion and friction angle.
C14_StrainFieldsIndependent ==
    IsIso =>
        /\ cfg.use_plastic_strain_weakening
           => \A x \in FieldValues :
                  SameViscousWeakening(
                      call.out,
                      calculate_isostrain_viscosities(cfg, WithField("plastic_strain", x)))
        /\ cfg.use_viscous_strain_weakening
           => \A x \in FieldValues :
                  SamePlasticWeakening(
                      call.out,
                      calculate_isostrain_viscosities(cfg, WithField("viscous_strain", x)))

\* plastic strain weakening alone: another plastic_strain, another viscous
\* weakening factor
C14_Witness ==
    /\ IsIso
    /\ cfg.use_plastic_strain_weakening /\ ~cfg.use_viscous_strain_weakening
    /\ call.in.composition[compositional_index_for_name(cfg.field_names, "plastic_strain") + 1]
           = Zero
    /\ call.out.locals[1].viscous_weakening = One
    /\ calculate_isostrain_viscosities(cfg, WithField("plastic_strain", Two))
           .locals[1].viscous_weakening = Half

\* what does hold: with both plastic and viscous strain weakening enabled each
\* field drives its own weakening only
StrainFieldsIndependentWhenBothEnabled ==
    (IsIso /\ cfg.use_plastic_strain_weakening /\ cfg.use_viscous_strain_weakening)
    => \A x \in FieldValues :
           /\ SameViscousWeakening(
                  call.out,
                  calculate_isostrain_viscosities(cfg, WithField("plastic_strain", x)))
           /\ SamePlasticWeakening(
                  call.out,
                  calculate_isostrain_viscosities(cfg, WithField("viscous_strain", x)))


(***************************************************************************)
(* ViscoPlastic::evaluate, at one evaluation point                         *)
(*                                                                         *)
(* in is the record of the point's inputs (temperature, pressure,          *)
(* composition, strain_rate, or <<>> when in.strain_rate.size() is 0),     *)
(* of the additional outputs the caller asked for (derivatives,            *)
(* plastic_out), of what compute_volume_fractions returned for the point   *)
(* (volume_fractions) and of what evaluate reads from the simulator        *)
(* (timestep_number, timestep, reference_density_profile,                  *)
(* adiabatic_density, current_cell_valid, velocity_gradient).              *)
(***************************************************************************)
\* finite_difference_accuracy, 1e-7 in the code; 2^-3 in model units, which
\* keeps the perturbed values small rationals
finite_difference_accuracy == Rat(1, 8)

\* SymmetricTensor<2,dim>::n_independent_components
symmetric_n_independent_components(dim) == (dim * (dim + 1)) \div 2

\* SymmetricTensor<2,dim>::unrolled_to_component_indices : the diagonal first,
\* then the upper triangle row by row; component is 0-based, the indices 1-based
unrolled_to_component_indices(dim, component) ==
    IF dim = 2
    THEN <<<<1, 1>>, <<2, 2>>, <<1, 2>>>>[component + 1]
    ELSE <<<<1, 1>>, <<2, 2>>, <<3, 3>>, <<1, 2>>, <<1, 3>>, <<2, 3>>>>[component + 1]

\* ComponentMask composition_mask : false for the fields that track strain
composition_mask(c) ==
    LET names == c.field_names
        idx(name) == compositional_index_for_name(names, name) + 1
        is(i, name) == compositional_name_exists(names, name) /\ i = idx(name)
    IN  [i \in 1..Len(names) |->
            ~(/\ c.use_strain_weakening
              /\ \/ c.use_plastic_strain_weakening /\ is(i, "plastic_strain")
                 \/ c.use_viscous_strain_weakening /\ is(i, "viscous_strain")
                 \/ /\ ~c.use_plastic_strain_weakening
                    /\ ~c.use_viscous_strain_weakening
                    /\ ~c.use_finite_strain_tensor
                    /\ is(i, "total_strain")
                 \/ /\ c.use_finite_strain_tensor
                    /\ i >= idx("s11")
                    /\ i < idx("s11") + n_independent_components(c.dim))]

\* sum over the phases of volume_fractions[j] * values[j]
volume_weighted_sum(volume_fractions, values) ==
    RSum([j \in 1..Len(volume_fractions) |-> RMul(volume_fractions[j], values[j])])

\* a variant of the density change without the branch for pressures at or
\* above the maximum transition pressure
delta_crust_density_below_maximum(c, pressure, j) ==
    IF c.use_spcrust_density_change
       /\ j = compositional_index_for_name(c.field_names, "spcrust") + 2
       /\ RGt(pressure, c.spcrust_density_minimum_pressure)
       /\ RLt(pressure, c.spcrust_density_maximum_pressure)
    THEN RDiv(RMul(RSub(pressure, c.spcrust_density_minimum_pressure),
                   c.spcrust_density_change),
              RSub(c.spcrust_density_maximum_pressure,
                   c.spcrust_density_minimum_pressure))
    ELSE Zero

delta_crust_density(c, pressure, j) ==
    IF c.use_spcrust_density_change
       /\ j = compositional_index_for_name(c.field_names, "spcrust") + 2
    THEN IF RGt(pressure, c.spcrust_density_minimum_pressure)
            /\ RLt(pressure, c.spcrust_density_maximum_pressure)
         THEN RDiv(RMul(RSub(pressure, c.spcrust_density_minimum_pressure),
                        c.spcrust_density_change),
                   RSub(c.spcrust_density_maximum_pressure,
                        c.spcrust_density_minimum_pressure))
         ELSE IF RGe(pressure, c.spcrust_density_maximum_pressure)
         THEN c.spcrust_density_change
         ELSE Zero
    ELSE Zero

temperature_factor(c, temperature, j) ==
    RSub(One, RMul(c.thermal_expansivities[j], RSub(temperature, c.reference_T)))

density(c, in) ==
    RSum([j \in 1..Len(in.volume_fractions) |->
            RMul(RMul(in.volume_fractions[j],
                      RAdd(c.densities[j], delta_crust_density(c, in.pressure, j))),
                 temperature_factor(c, in.temperature, j))])

\* out.thermal_conductivities[i]
thermal_conductivity(in, thermal_diffusivity, heat_capacity, rho) ==
    RMul(RMul(thermal_diffusivity, heat_capacity),
         IF in.reference_density_profile THEN in.adiabatic_density ELSE rho)

\* the arguments evaluate passes to calculate_isostrain_viscosities
isostrain_arguments(c, in, pressure, strain_rate) ==
    [volume_fractions |-> in.volume_fractions,
     pressure |-> pressure,
     temperature |-> in.temperature,
     composition |-> in.composition,
     strain_rate |-> strain_rate,
     viscous_type |-> c.viscous_flow_law,
     yield_type |-> c.yield_mechanism,
     timestep_number |-> in.timestep_number]


\* strain_rate + perturbation * nth_basis_for_symmetric_tensors(component) :
\* the basis tensor is 1 in the component at indices
perturbed_strain_rate(strain_rate, indices, perturbation) ==
    [i \in 1..Len(strain_rate) |->
        [k \in 1..Len(strain_rate) |->
            IF <<i, k>> = indices \/ <<k, i>> = indices
            THEN RAdd(strain_rate[i][k], perturbation)
            ELSE strain_rate[i][k]]]

\* std::max(std::fabs(tensor[strain_rate_indices]), min_strain_rate)
\*     * finite_difference_accuracy
finite_difference_step(c, tensor, indices) ==
    RMul(RMax(RAbs(tensor[indices[1]][indices[2]]), c.min_strain_rate),
         finite_difference_accuracy)

\* if (viscosity_derivative != 0) viscosity_derivative /= divisor
strain_rate_quotient(viscosity_derivative, divisor) ==
    IF viscosity_derivative # Zero
    THEN RDiv(viscosity_derivative, divisor)
    ELSE viscosity_derivative

\* one pass of the loop over the independent components; perturbation is what
\* was added to the component, divisor what the difference is divided by
component_derivatives(c, composition_viscosities, indices, perturbation, strain_rate_difference, eta_component) ==
    [indices |-> indices,
     perturbation |-> perturbation,
     strain_rate_difference |-> strain_rate_difference,
     eta_component |-> eta_component,
     divisor |-> finite_difference_step(c, strain_rate_difference, indices),
     viscosity_difference |->
         [j \in 1..Len(eta_component) |->
             RSub(eta_component[j], composition_viscosities[j])],
     viscosity_derivative |->
         [j \in 1..Len(eta_component) |->
             strain_rate_quotient(
                 RSub(eta_component[j], composition_viscosities[j]),
                 finite_difference_step(c, strain_rate_difference, indices))]]

component_at(c, in, composition_viscosities, indices, perturbation, strain_rate_difference) ==
    component_derivatives(
        c, composition_viscosities, indices, perturbation, strain_rate_difference,
        calculate_isostrain_viscosities(
            c, isostrain_arguments(c, in, in.pressure, strain_rate_difference)).first)

component_perturbed(c, in, composition_viscosities, indices, perturbation) ==
    component_at(c, in, composition_viscosities, indices, perturbation,
                 perturbed_strain_rate(in.strain_rate, indices, perturbation))

strain_rate_derivative(c, in, composition_viscosities, component) ==
    component_perturbed(
        c, in, composition_viscosities,
        unrolled_to_component_indices(c.dim, component),
        finite_difference_step(c, in.strain_rate,
                               unrolled_to_component_indices(c.dim, component)))

\* the body of the loop that fills composition_dviscosities_dpressure
\* variant of pressure_quotient that leaves the difference undivided
pressure_quotient_undivided(pressure, viscosity_difference, viscosity_derivative) ==
    IF viscosity_difference # Zero /\ pressure = Zero
    THEN Zero
    ELSE viscosity_derivative

pressure_quotient(pressure, viscosity_difference, viscosity_derivative) ==
    IF viscosity_difference # Zero
    THEN IF pressure # Zero
         THEN RDiv(viscosity_derivative,
                   RMul(RAbs(pressure), finite_difference_accuracy))
         ELSE Zero
    ELSE viscosity_derivative

pressure_derivatives(in, composition_viscosities, pressure_difference, viscosity_difference) ==
    [pressure_difference |-> pressure_difference,
     viscosity_difference |-> viscosity_difference,
     composition_dviscosities_dpressure |->
         [j \in 1..Len(viscosity_difference) |->
             pressure_quotient(
                 in.pressure, viscosity_difference[j],
                 RSub(viscosity_difference[j], composition_viscosities[j]))]]

pressure_at(c, in, composition_viscosities, pressure_difference) ==
    pressure_derivatives(
        in, composition_viscosities, pressure_difference,
        calculate_isostrain_viscosities(
            c, isostrain_arguments(c, in, pressure_difference, in.strain_rate)).first)

pressure_derivative(c, in, composition_viscosities) ==
    pressure_at(c, in, composition_viscosities,
                RAdd(in.pressure, RMul(RAbs(in.pressure), finite_difference_accuracy)))

\* the exponent handed to the weighted p-norm average of the derivatives
viscosity_averaging_p(c) ==
    IF c.viscosity_averaging = "harmonic" THEN -1
    ELSE IF c.viscosity_averaging = "arithmetic" THEN 1
    ELSE IF c.viscosity_averaging = "maximum_composition" THEN 1000
    ELSE 0

\* if (derivatives != NULL) : the per-phase derivatives
phase_derivatives(c, in, composition_viscosities) ==
    [composition_viscosities_derivatives |->
         [component \in 1..symmetric_n_independent_components(c.dim) |->
             strain_rate_derivative(c, in, composition_viscosities, component - 1)],
     pressure |-> pressure_derivative(c, in, composition_viscosities),
     viscosity_averaging_p |-> viscosity_averaging_p(c)]

\* if (in.strain_rate.size()) : viscosity, plastic yielding and derivatives
viscosity_outputs(c, in, calculate_viscosities) ==
    [calculate_viscosities |-> calculate_viscosities,
     viscosities |-> average_value(in.volume_fractions, calculate_viscosities.first,
                                   c.viscosity_averaging),
     plastic_yielding |->
         average_value(in.volume_fractions, calculate_viscosities.second,
                       "maximum_composition") # Zero,
     derivatives |->
         IF in.derivatives
         THEN <<phase_derivatives(c, in, calculate_viscosities.first)>>
         ELSE <<>>]

\* what is left of the outputs when no strain rate is supplied
no_viscosity_outputs ==
    [calculate_viscosities |-> <<>>, viscosities |-> <<>>,
     plastic_yielding |-> FALSE, derivatives |-> <<>>]

viscosity_part(c, in) ==
    IF in.strain_rate # <<>>
    THEN viscosity_outputs(
             c, in,
             calculate_isostrain_viscosities(
                 c, isostrain_arguments(c, in, in.pressure, in.strain_rate)))
    ELSE no_viscosity_outputs


\* out.reaction_terms[i] before the finite strain tensor is written: 0, but
\* for the strain field of the active mode
\* out.reaction_terms[i] before the finite strain tensor is written: 0, but
\* for the strain field of the active mode
\* variant of strain_reaction_terms that advances the strain at timestep 0 too
strain_reaction_terms_every_timestep(c, in, plastic_yielding) ==
    LET idx(name) == compositional_index_for_name(c.field_names, name) + 1
        zero == [f \in 1..Len(in.composition) |-> Zero]
        tracked == /\ c.use_strain_weakening
                   /\ ~c.use_finite_strain_tensor
                   /\ in.strain_rate # <<>>
        e_ii == RMul(RMax(Sqrt(RAbs(second_invariant(deviator(in.strain_rate)))),
                          c.min_strain_rate),
                     in.timestep)
        plastic == IF tracked /\ c.use_plastic_strain_weakening /\ plastic_yielding
                   THEN [zero EXCEPT ![idx("plastic_strain")] = e_ii]
                   ELSE zero
        viscous == IF tracked /\ c.use_viscous_strain_weakening /\ ~plastic_yielding
                   THEN [plastic EXCEPT ![idx("viscous_strain")] = e_ii]
                   ELSE plastic
    IN  IF tracked /\ ~c.use_plastic_strain_weakening /\ ~c.use_viscous_strain_weakening
        THEN [viscous EXCEPT ![idx("total_strain")] = e_ii]
        ELSE viscous

\* variant of strain_reaction_terms in which the plastic strain advances
\* whether or not the point yields
strain_reaction_terms_plastic_always(c, in, plastic_yielding) ==
    LET idx(name) == compositional_index_for_name(c.field_names, name) + 1
        zero == [f \in 1..Len(in.composition) |-> Zero]
        tracked == /\ c.use_strain_weakening
                   /\ ~c.use_finite_strain_tensor
                   /\ in.timestep_number > 0
                   /\ in.strain_rate # <<>>
        e_ii == RMul(RMax(Sqrt(RAbs(second_invariant(deviator(in.strain_rate)))),
                          c.min_strain_rate),
                     in.timestep)
        plastic == IF tracked /\ c.use_plastic_strain_weakening
                   THEN [zero EXCEPT ![idx("plastic_strain")] = e_ii]
                   ELSE zero
        viscous == IF tracked /\ c.use_viscous_strain_weakening /\ ~plastic_yielding
                   THEN [plastic EXCEPT ![idx("viscous_strain")] = e_ii]
                   ELSE plastic
    IN  IF tracked /\ ~c.use_plastic_strain_weakening /\ ~c.use_viscous_strain_weakening
        THEN [viscous EXCEPT ![idx("total_strain")] = e_ii]
        ELSE viscous

\* a variant of the reaction terms in which the total strain loses the
\* strain of the step
strain_reaction_terms_total_reduced(c, in, plastic_yielding) ==
    LET idx(name) == compositional_index_for_name(c.field_names, name) + 1
        zero == [f \in 1..Len(in.composition) |-> Zero]
        tracked == /\ c.use_strain_weakening
                   /\ ~c.use_finite_strain_tensor
                   /\ in.timestep_number > 0
                   /\ in.strain_rate # <<>>
        e_ii == RMul(RMax(Sqrt(RAbs(second_invariant(deviator(in.strain_rate)))),
                          c.min_strain_rate),
                     in.timestep)
        plastic == IF tracked /\ c.use_plastic_strain_weakening /\ plastic_yielding
                   THEN [zero EXCEPT ![idx("plastic_strain")] = e_ii]
                   ELSE zero
        viscous == IF tracked /\ c.use_viscous_strain_weakening /\ ~plastic_yielding
                   THEN [plastic EXCEPT ![idx("viscous_strain")] = e_ii]
                   ELSE plastic
    IN  IF tracked /\ ~c.use_plastic_strain_weakening /\ ~c.use_viscous_strain_weakening
        THEN [viscous EXCEPT ![idx("total_strain")] = RNeg(e_ii)]
        ELSE viscous

strain_reaction_terms(c, in, plastic_yielding) ==
    LET idx(name) == compositional_index_for_name(c.field_names, name) + 1
        zero == [f \in 1..Len(in.composition) |-> Zero]
        tracked == /\ c.use_strain_weakening
                   /\ ~c.use_finite_strain_tensor
                   /\ in.timestep_number > 0
                   /\ in.strain_rate # <<>>
        e_ii == RMul(RMax(Sqrt(RAbs(second_invariant(deviator(in.strain_rate)))),
                          c.min_strain_rate),
                     in.timestep)
        plastic == IF tracked /\ c.use_plastic_strain_weakening /\ plastic_yielding
                   THEN [zero EXCEPT ![idx("plastic_strain")] = e_ii]
                   ELSE zero
        viscous == IF tracked /\ c.use_viscous_strain_weakening /\ ~plastic_yielding
                   THEN [plastic EXCEPT ![idx("viscous_strain")] = e_ii]
                   ELSE plastic
    IN  IF tracked /\ ~c.use_plastic_strain_weakening /\ ~c.use_viscous_strain_weakening
        THEN [viscous EXCEPT ![idx("total_strain")] = e_ii]
        ELSE viscous

\* a * b for Tensor<2,dim>
tensor_product(a, b) ==
    [i \in 1..Len(a) |->
        [k \in 1..Len(a) |-> RSum([m \in 1..Len(a) |-> RMul(a[i][m], b[m][k])])]]

\* strain[Tensor<2,dim>::unrolled_to_component_indices(q)] = composition[q] for
\* q from n_first on; the components below n_first keep the 0 of the
\* constructor, an index q of dim*dim or more is outside the tensor
strain_from(composition, dim, n_first) ==
    [i \in 1..dim |->
        [k \in 1..dim |->
            IF (i - 1) * dim + (k - 1) >= n_first
            THEN composition[(i - 1) * dim + k]
            ELSE Zero]]

\* the loop over the quadrature points that writes the strain increment
finite_strain_reaction_terms(c, in, reaction_terms) ==
    IF /\ in.current_cell_valid
       /\ c.use_strain_weakening
       /\ c.use_finite_strain_tensor
       /\ in.timestep_number > 0
       /\ in.strain_rate # <<>>
    THEN LET n_first == compositional_index_for_name(c.field_names, "s11")
             strain_increment ==
                 tensor_product(in.velocity_gradient,
                                strain_from(in.composition, c.dim, n_first))
         IN  [f \in 1..Len(reaction_terms) |->
                 IF f - 1 >= n_first /\ f - 1 < n_first + n_independent_components(c.dim)
                    /\ f - 1 < n_independent_components(c.dim)
                 THEN RMul(in.timestep,
                           strain_increment[((f - 1) \div c.dim) + 1][((f - 1) % c.dim) + 1])
                 ELSE reaction_terms[f]]
    ELSE reaction_terms

\* strain_invariant of the plastic outputs
plastic_out_strain_invariant(c, in) ==
    LET idx(name) == compositional_index_for_name(c.field_names, name) + 1
    IN  IF c.use_plastic_strain_weakening THEN in.composition[idx("plastic_strain")]
        ELSE IF ~c.use_viscous_strain_weakening /\ ~c.use_finite_strain_tensor
        THEN in.composition[idx("total_strain")]
        ELSE IF c.use_finite_strain_tensor
        THEN RAbs(second_invariant(left_stretching_tensor(
                 strain_from(in.composition, c.dim, idx("s11") - 1))))
        ELSE Zero

\* C and phi of phase j, weakened when strain weakening is used
plastic_out_phase(c, in, j) ==
    IF c.use_strain_weakening
    THEN calculate_plastic_weakening(c, plastic_out_strain_invariant(c, in), j)
    ELSE [first |-> c.cohesions[j], second |-> c.angles_internal_friction[j]]

\* the PlasticAdditionalOutputs of the point
plastic_outputs(c, in, plastic_yielding) ==
    LET n == Len(in.volume_fractions)
    IN  [cohesions |->
             volume_weighted_sum(in.volume_fractions,
                                 [j \in 1..n |-> plastic_out_phase(c, in, j).first]),
         friction_angles |->
             RDiv(RMul(volume_weighted_sum(
                           in.volume_fractions,
                           [j \in 1..n |-> plastic_out_phase(c, in, j).second]),
                       <<180, 1>>),
                  PI),
         yielding |-> IF plastic_yielding THEN One ELSE Zero]

\* the outputs of the point once the viscosity part is known
evaluate_outputs(c, in, rho, heat_capacity, viscosity) ==
    [densities |-> rho,
     thermal_expansion_coefficients |->
         volume_weighted_sum(in.volume_fractions, c.thermal_expansivities),
     specific_heat |-> heat_capacity,
     thermal_conductivities |->
         thermal_conductivity(
             in, volume_weighted_sum(in.volume_fractions, c.thermal_diffusivities),
             heat_capacity, rho),
     compressibilities |-> Zero,
     entropy_derivative_pressure |-> Zero,
     entropy_derivative_temperature |-> Zero,
     composition_mask |-> composition_mask(c),
     calculate_viscosities |-> viscosity.calculate_viscosities,
     viscosities |-> viscosity.viscosities,
     plastic_yielding |-> viscosity.plastic_yielding,
     derivatives |-> viscosity.derivatives,
     reaction_terms |->
         finite_strain_reaction_terms(
             c, in, strain_reaction_terms(c, in, viscosity.plastic_yielding)),
     plastic_out |->
         IF in.plastic_out
         THEN <<plastic_outputs(c, in, viscosity.plastic_yielding)>>
         ELSE <<>>]

evaluate(c, in) ==
    evaluate_outputs(c, in, density(c, in),
                     volume_weighted_sum(in.volume_fractions, c.heat_capacities),
                     viscosity_part(c, in))


(***************************************************************************)
(* SimpleNonlinear: declare_parameters, parse_parameters and evaluate at   *)
(* one evaluation point                                                    *)
(***************************************************************************)
\* The entries SimpleNonlinear::declare_parameters declares, in model units.
simple_nonlinear_declare_parameters ==
    [number_of_fields |-> 0,
     reference_temperature |-> One,
     minimum_strain_rate |-> <<Rat(1, 4)>>,
     minimum_viscosity |-> <<Rat(1, 4)>>,
     maximum_viscosity |-> <<<<64, 1>>>>,
     reference_viscosity |-> One,
     thermal_diffusivity |-> <<Half>>,
     heat_capacity |-> <<One>>,
     densities |-> <<Two>>,
     thermal_expansivities |-> <<Half>>,
     viscosity_prefactor |-> <<One>>,
     stress_exponent |-> <<Two>>,
     viscosity_averaging_p |-> -1,
     use_deviator_of_strain_rate |-> TRUE]

\* the list entries SimpleNonlinear::parse_parameters extends to n_fields values
simple_nonlinear_entries(prm) ==
    <<prm.minimum_strain_rate, prm.minimum_viscosity, prm.maximum_viscosity,
      prm.thermal_diffusivity, prm.heat_capacity, prm.densities,
      prm.thermal_expansivities, prm.viscosity_prefactor, prm.stress_exponent>>

\* The member variables SimpleNonlinear::parse_parameters leaves behind
\* (ok = FALSE: possibly_extend_from_1_to_N threw).
simple_nonlinear_parse_parameters(prm) ==
    LET n_fields == prm.number_of_fields + 1
        lists == simple_nonlinear_entries(prm)
        ext(values) == possibly_extend_from_1_to_N(values, n_fields)
    IN  IF \E k \in 1..Len(lists) : ~list_length_ok(lists[k], n_fields)
        THEN [model |-> "simple nonlinear", ok |-> FALSE,
              error |-> "a list has neither 1 nor N+1 values"]
        ELSE
        [model |-> "simple nonlinear", ok |-> TRUE,
         n_fields |-> n_fields,
         reference_temperature |-> prm.reference_temperature,
         ref_viscosity |-> prm.reference_viscosity,
         min_strain_rate |-> ext(prm.minimum_strain_rate),
         min_viscosity |-> ext(prm.minimum_viscosity),
         max_viscosity |-> ext(prm.maximum_viscosity),
         thermal_diffusivity |-> ext(prm.thermal_diffusivity),
         heat_capacity |-> ext(prm.heat_capacity),
         densities |-> ext(prm.densities),
         thermal_expansivities |-> ext(prm.thermal_expansivities),
         viscosity_prefactor |-> ext(prm.viscosity_prefactor),
         stress_exponent |-> ext(prm.stress_exponent),
         viscosity_averaging_p |-> prm.viscosity_averaging_p,
         use_deviator_of_strain_rate |-> prm.use_deviator_of_strain_rate]

\* a * t for a double a and a tensor t
scaled_tensor(a, t) ==
    [i \in 1..Len(t) |-> [k \in 1..Len(t) |-> RMul(a, t[i][k])]]

\* SymmetricTensor<2,dim> = 0
zero_tensor(dim) == [i \in 1..dim |-> [k \in 1..dim |-> Zero]]

\* s * t for two SymmetricTensor<2,dim> : the double contraction
double_contraction(s, t) ==
    RSum([i \in 1..Len(s) |->
            RSum([k \in 1..Len(s) |-> RMul(s[i][k], t[i][k])])])

\* variant of simple_nonlinear_derivative that is not set to 0 where the strain rate or the
\* viscosity is at a bound
simple_nonlinear_derivative_unguarded(c, j, edot, edot_ii_strict, edot_ii_value, viscosity) ==
    LET stress_exponent_inv == RDiv(One, c.stress_exponent[j])
        derivative ==
            scaled_tensor(
                RMul(RMul(RMul(Two, RSub(stress_exponent_inv, One)), viscosity),
                     RDiv(One, RMul(edot_ii_value, edot_ii_value))),
                edot)
    IN  IF c.use_deviator_of_strain_rate THEN deviator(derivative) ELSE derivative

\* composition_viscosities_derivatives[c] ; a tensor times deviator_tensor<dim>()
\* is its deviator
simple_nonlinear_derivative(c, j, edot, edot_ii_strict, edot_ii_value, viscosity) ==
    LET stress_exponent_inv == RDiv(One, c.stress_exponent[j])
        floor == RMul(c.min_strain_rate[j], c.min_strain_rate[j])
        derivative ==
            scaled_tensor(
                RMul(RMul(RMul(Two, RSub(stress_exponent_inv, One)), viscosity),
                     RDiv(One, RMul(edot_ii_value, edot_ii_value))),
                edot)
    IN  IF /\ RGt(edot_ii_strict, floor)
           /\ RLt(viscosity, c.max_viscosity[j])
           /\ RGt(viscosity, c.min_viscosity[j])
        THEN (IF c.use_deviator_of_strain_rate THEN deviator(derivative) ELSE derivative)
        ELSE zero_tensor(Len(edot))

\* composition_viscosities[c]
simple_nonlinear_viscosity(c, j, edot_ii_value) ==
    LET stress_exponent_inv == RDiv(One, c.stress_exponent[j])
    IN  RMax(RMin(RMul(Pow(c.viscosity_prefactor[j], RNeg(stress_exponent_inv)),
                       Pow(edot_ii_value, RSub(stress_exponent_inv, One))),
                  c.max_viscosity[j]),
             c.min_viscosity[j])

\* the local variables of one pass of the loop over the phases
simple_nonlinear_locals(c, in, j, edot, edot_ii_strict, edot_ii_value, viscosity) ==
    [edot |-> edot,
     edot_ii_strict |-> edot_ii_strict,
     edot_ii |-> edot_ii_value,
     composition_viscosities |-> viscosity,
     composition_viscosities_derivatives |->
         IF in.derivatives
         THEN <<simple_nonlinear_derivative(c, j, edot, edot_ii_strict, edot_ii_value, viscosity)>>
         ELSE <<>>]

simple_nonlinear_floored(c, in, j, edot, edot_ii_strict, edot_ii_value) ==
    simple_nonlinear_locals(c, in, j, edot, edot_ii_strict, edot_ii_value,
                            simple_nonlinear_viscosity(c, j, edot_ii_value))

simple_nonlinear_strict(c, in, j, edot, edot_ii_strict) ==
    simple_nonlinear_floored(
        c, in, j, edot, edot_ii_strict,
        RMul(Two, RMax(edot_ii_strict,
                       RMul(c.min_strain_rate[j], c.min_strain_rate[j]))))

simple_nonlinear_edot(c, in, j, edot) ==
    simple_nonlinear_strict(c, in, j, edot,
                            Sqrt(RMul(Half, double_contraction(edot, edot))))

simple_nonlinear_phase(c, in, j) ==
    simple_nonlinear_edot(
        c, in, j,
        IF c.use_deviator_of_strain_rate THEN deviator(in.strain_rate) ELSE in.strain_rate)

\* Utilities::weighted_p_norm_average for the exponents used here: the
\* harmonic (p = -1) and the arithmetic (p = 1) mean
weighted_p_norm_average(weights, values, p) ==
    IF p = -1
    THEN RDiv(RSum(weights),
              RSum([j \in 1..Len(weights) |-> RDiv(weights[j], values[j])]))
    ELSE RDiv(volume_weighted_sum(weights, values), RSum(weights))

\* if (in.strain_rate.size()) : the per-phase viscosities and derivatives; the
\* pressure derivative is written when derivatives are asked for
simple_nonlinear_viscosity_part(c, in, volume_fractions) ==
    IF in.strain_rate # <<>>
    THEN [phases |-> [j \in 1..Len(volume_fractions) |-> simple_nonlinear_phase(c, in, j)],
          viscosities |->
              weighted_p_norm_average(
                  volume_fractions,
                  [j \in 1..Len(volume_fractions) |->
                      simple_nonlinear_phase(c, in, j).composition_viscosities],
                  c.viscosity_averaging_p),
          viscosity_derivative_wrt_pressure |->
              IF in.derivatives THEN <<Zero>> ELSE <<>>]
    ELSE [phases |-> <<>>, viscosities |-> <<>>,
          viscosity_derivative_wrt_pressure |-> <<>>]

simple_nonlinear_outputs(c, in, volume_fractions) ==
    [threw |-> FALSE,
     volume_fractions |-> volume_fractions,
     densities |->
         RSum([j \in 1..Len(volume_fractions) |->
                 RMul(RMul(volume_fractions[j], c.densities[j]),
                      RSub(One, RMul(c.thermal_expansivities[j],
                                     RSub(in.temperature, c.reference_temperature))))]),
     thermal_expansion_coefficients |->
         volume_weighted_sum(volume_fractions, c.thermal_expansivities),
     specific_heat |-> volume_weighted_sum(volume_fractions, c.heat_capacity),
     thermal_conductivities |->
         RSum([j \in 1..Len(volume_fractions) |->
                 RMul(RMul(RMul(volume_fractions[j], c.thermal_diffusivity[j]),
                           c.heat_capacity[j]),
                      c.densities[j])]),
     compressibilities |-> Zero,
     entropy_derivative_pressure |-> Zero,
     entropy_derivative_temperature |-> Zero,
     viscosity |-> simple_nonlinear_viscosity_part(c, in, volume_fractions),
     reaction_terms |-> [f \in 1..Len(in.composition) |-> Zero]]

\* AssertThrow(in.composition[i].size()+1 == n_fields, ...) comes first
simple_nonlinear_evaluate(c, in) ==
    IF Len(in.composition) + 1 # c.n_fields
    THEN [threw |-> TRUE,
          error |-> "Number of compositional fields + 1 not equal to number of fields given in input file."]
    ELSE simple_nonlinear_outputs(c, in, compute_volume_fractions(in.composition))


(***************************************************************************)
(* A material model from construction on: parse_parameters runs once, and  *)
(* evaluate is called only on an object whose parse_parameters returned    *)
(* (an exception of parse_parameters ends the program).                    *)
(***************************************************************************)
\* parameter files ViscoPlastic::parse_parameters throws on
RejectedParameterFiles ==
    {[declare_parameters EXCEPT
         !.field_names = <<"plastic_strain">>, !.use_plastic_strain_weakening = TRUE],
     [declare_parameters EXCEPT
         !.field_names = <<"viscous_strain">>, !.use_viscous_strain_weakening = TRUE],
     [declare_parameters EXCEPT
         !.field_names = <<"s11", "s12", "s21", "s22">>,
         !.use_finite_strain_tensor = TRUE],
     [declare_parameters EXCEPT
         !.use_strain_weakening = TRUE, !.use_plastic_strain_weakening = TRUE],
     [declare_parameters EXCEPT
         !.use_strain_weakening = TRUE, !.use_viscous_strain_weakening = TRUE],
     [declare_parameters EXCEPT !.use_strain_weakening = TRUE],
     [declare_parameters EXCEPT
         !.field_names = <<"s11", "s12", "s21">>,
         !.use_strain_weakening = TRUE, !.use_finite_strain_tensor = TRUE],
     [declare_parameters EXCEPT
         !.field_names = <<"s11", "s12", "s21", "s22", "plastic_strain">>,
         !.use_strain_weakening = TRUE, !.use_finite_strain_tensor = TRUE,
         !.use_plastic_strain_weakening = TRUE],
     [declare_parameters EXCEPT
         !.field_names = <<"s11", "s12", "s21", "s22", "viscous_strain">>,
         !.use_strain_weakening = TRUE, !.use_finite_strain_tensor = TRUE,
         !.use_viscous_strain_weakening = TRUE],
     [declare_parameters EXCEPT
         !.field_names = <<"s11", "s21", "s12", "s22">>,
         !.use_strain_weakening = TRUE, !.use_finite_strain_tensor = TRUE],
     [declare_parameters EXCEPT !.use_fixed_spcrust_viscosity = TRUE],
     [declare_parameters EXCEPT !.use_spcrust_density_change = TRUE],
     [declare_parameters EXCEPT !.cohesions = <<One, One, One>>],
     [declare_parameters EXCEPT !.densities = <<One, One, One>>]}

\* a density change of the spcrust field between the pressures 0 and 2
SpcrustDensityParameterFile ==
    [declare_parameters EXCEPT
        !.field_names = <<"spcrust">>,
        !.use_spcrust_density_change = TRUE,
        !.density_change_from_spcrust = One,
        !.maximum_transition_pressure_spcrust_density = Two]

\* two materials with friction under diffusion creep alone, in 2-D and 3-D
FrictionDiffusionParameterFiles ==
    {[FrictionParameterFile EXCEPT !.viscous_flow_law = "diffusion", !.dim = dim] :
        dim \in {2, 3}}

\* layouts of the fields of the finite strain tensor: the four fields of 2-D
\* with another field between them, and the nine fields of 3-D in row-major
\* order, alone or behind another field
TensorLayoutParameterFiles ==
    {[TotalStrainParameterFile EXCEPT
         !.field_names = <<"s11", "crust", "s12", "s21", "s22">>,
         !.use_finite_strain_tensor = TRUE],
     [TotalStrainParameterFile EXCEPT
         !.dim = 3,
         !.field_names = <<"s11", "s12", "s13", "s21", "s22", "s23", "s31", "s32", "s33">>,
         !.use_finite_strain_tensor = TRUE],
     [TotalStrainParameterFile EXCEPT
         !.dim = 3,
         !.field_names = <<"crust", "s11", "s12", "s13", "s21", "s22", "s23",
                           "s31", "s32", "s33">>,
         !.use_finite_strain_tensor = TRUE]}

\* the density change of the spcrust phase over the pressures 0 to 2, over
\* the pressures 0 to 1, and with the default transition pressures 0 and 0
SpcrustDensityParameterFiles ==
    {SpcrustDensityParameterFile,
     [SpcrustDensityParameterFile EXCEPT
         !.maximum_transition_pressure_spcrust_density = One],
     [SpcrustDensityParameterFile EXCEPT
         !.maximum_transition_pressure_spcrust_density = Zero]}

ViscoPlasticParameterFiles ==
    BaseParameterFiles
    \cup FrictionDiffusionParameterFiles
    \cup SpcrustDensityParameterFiles
    \cup RejectedParameterFiles
    \cup TensorLayoutParameterFiles

\* SimpleNonlinear: the defaults; one compositional field; a viscosity
\* maximum and minimum within reach; a linear material; the strain rate
\* itself; the arithmetic mean; a prefactor of 0 with no minimum strain rate;
\* a list of the wrong length
SimpleNonlinearParameterFiles ==
    {simple_nonlinear_declare_parameters,
     [simple_nonlinear_declare_parameters EXCEPT !.number_of_fields = 1],
     [simple_nonlinear_declare_parameters EXCEPT !.maximum_viscosity = <<Half>>],
     [simple_nonlinear_declare_parameters EXCEPT !.minimum_viscosity = <<One>>],
     [simple_nonlinear_declare_parameters EXCEPT !.stress_exponent = <<One>>],
     [simple_nonlinear_declare_parameters EXCEPT !.use_deviator_of_strain_rate = FALSE],
     [simple_nonlinear_declare_parameters EXCEPT
         !.number_of_fields = 1,
         !.viscosity_averaging_p = 1,
         !.stress_exponent = <<Two, One>>],
     [simple_nonlinear_declare_parameters EXCEPT
         !.viscosity_prefactor = <<Zero>>,
         !.stress_exponent = <<Half>>,
         !.minimum_strain_rate = <<Zero>>],
     [simple_nonlinear_declare_parameters EXCEPT !.densities = <<One, One, One>>]}

\* what compute_volume_fractions returned: half background, half first field
VolumeFractions(n_fields) ==
    IF n_fields > 1
    THEN {[j \in 1..n_fields |-> IF j <= 2 THEN Half ELSE Zero]}
    ELSE {BackgroundOnly(n_fields)}

\* get_timestep()
TimestepValues == {Half}

\* the velocity gradient of the finite element solution at the point
VelocityGradients(dim) ==
    {[i \in 1..dim |-> [k \in 1..dim |-> IF i = 1 /\ k = 2 THEN One ELSE Zero]]}

\* pressures at which evaluate is called
EvaluatePressures == {Rat(-1, 1), Zero, One}

\* temperatures at which evaluate is called
EvaluateTemperatures == {One, Two}

\* whether the caller asks for the derivatives: it may where the material
\* has diffusion creep, Drucker-Prager plasticity and no strain weakening,
\* for which the viscosities of the perturbed points are small rationals
DerivativeRequests(c) ==
    IF /\ c.viscous_flow_law = "diffusion"
       /\ c.yield_mechanism = "drucker_prager"
       /\ ~c.use_strain_weakening
    THEN BOOLEAN
    ELSE {FALSE}

\* the points ViscoPlastic::evaluate is called at: with or without a strain
\* rate, the derivatives and the plastic outputs
EvaluationPoints(c) ==
    {[temperature |-> temperature,
      pressure |-> pressure,
      composition |-> composition,
      strain_rate |-> strain_rate,
      volume_fractions |-> volume_fractions,
      derivatives |-> derivatives,
      plastic_out |-> additional,
      timestep_number |-> timestep_number,
      timestep |-> timestep,
      reference_density_profile |-> additional,
      adiabatic_density |-> One,
      current_cell_valid |-> TRUE,
      velocity_gradient |-> velocity_gradient] :
        temperature \in EvaluateTemperatures,
        pressure \in EvaluatePressures,
        composition \in Compositions(c),
        strain_rate \in StrainRates(c.dim) \cup {<<>>},
        volume_fractions \in VolumeFractions(Len(c.field_names) + 1),
        derivatives \in DerivativeRequests(c),
        additional \in BOOLEAN,
        timestep_number \in TimestepNumbers,
        timestep \in TimestepValues,
        velocity_gradient \in VelocityGradients(c.dim)}

\* a strain rate with a trace, besides those of StrainRates
\* points of a temperature field that is 0 everywhere, before the first timestep
ColdEvaluationPoints(c) ==
    {[p EXCEPT !.temperature = Zero] :
        p \in {q \in EvaluationPoints(c) :
                  /\ q.temperature = One /\ q.pressure = One
                  /\ q.timestep_number = 0
                  /\ ~q.derivatives /\ ~q.plastic_out}}

SimpleNonlinearStrainRates ==
    StrainRates(2) \cup {<<<<One, Zero>>, <<Zero, Zero>>>>, <<>>}

\* the points SimpleNonlinear::evaluate is called at; a test that uses the
\* material model directly may pass any number of compositional fields
SimpleNonlinearPoints ==
    {[temperature |-> temperature,
      composition |-> composition,
      strain_rate |-> strain_rate,
      derivatives |-> derivatives] :
        temperature \in EvaluateTemperatures,
        composition \in SeqsUpTo({Zero, Half}, 1),
        strain_rate \in SimpleNonlinearStrainRates,
        derivatives \in BOOLEAN}

\* after construction no member variable is set
Constructed(model) == [model |-> model, ok |-> FALSE, error |-> ""]

InitMaterial ==
    \/ /\ cfg = Constructed("visco plastic")
       /\ \E prm \in ViscoPlasticParameterFiles : call = Pending("parse_parameters", prm)
    \/ /\ cfg = Constructed("simple nonlinear")
       /\ \E prm \in SimpleNonlinearParameterFiles : call = Pending("parse_parameters", prm)

ParseParameters ==
    /\ cfg.model = "visco plastic"
    /\ call.op = "parse_parameters" /\ ~call.done
    /\ cfg' = parse_parameters(call.in)
    /\ call' = Returned(call, parse_error(call.in))

\* const SymmetricTensor<2,dim> strain_rate = in.strain_rate[i] is read at the
\* top of the loop over the points, before in.strain_rate.size() is tested.
\* With no strain rate the read is out of range: either the value read is
\* never used and the call returns, or the read faults and the call does not
\* return.
\* Tensor<2,dim>::unrolled_to_component_indices(q) is called with q up to
\* n_first + n_independent_components - 1, in the plastic outputs and in the
\* reaction terms of the finite strain tensor: with s11 behind the first field
\* the index leaves the components of the tensor
component_index_out_of_range(c, in) ==
    /\ c.use_strain_weakening
    /\ c.use_finite_strain_tensor
    /\ compositional_index_for_name(c.field_names, "s11") > 0
    /\ \/ in.plastic_out
       \/ in.current_cell_valid /\ in.timestep_number > 0 /\ in.strain_rate # <<>>

\* the call returns, or does not where it reads in.strain_rate[i] without a
\* strain rate or writes a component the tensor does not have
evaluate_outcomes(c, in) ==
    {Returned(Pending("evaluate", in), evaluate(c, in))}
    \cup (IF in.strain_rate = <<>> \/ component_index_out_of_range(c, in)
          THEN {Pending("evaluate", in)}
          ELSE {})

Evaluate ==
    /\ cfg.model = "visco plastic" /\ cfg.ok
    /\ call.op = "parse_parameters" /\ call.done
    /\ \E in \in EvaluationPoints(cfg) \cup ColdEvaluationPoints(cfg) :
           call' \in evaluate_outcomes(cfg, in)
    /\ UNCHANGED cfg

SimpleNonlinearParseParameters ==
    /\ cfg.model = "simple nonlinear"
    /\ call.op = "parse_parameters" /\ ~call.done
    /\ cfg' = simple_nonlinear_parse_parameters(call.in)
    /\ call' = Returned(call, IF cfg'.ok THEN "" ELSE cfg'.error)

\* Assert(dealii::numbers::is_finite(...)) on the viscosity of a phase and on
\* the averaged viscosity: a build with assertions ends the call with the
\* message of the first one that fails, a build without them stores the value
simple_nonlinear_asserts(out) ==
    IF out.threw \/ out.viscosity.phases = <<>> THEN {}
    ELSE IF \E j \in 1..Len(out.viscosity.phases) :
                ~IsFinite(out.viscosity.phases[j].composition_viscosities)
    THEN {[threw |-> TRUE, error |-> "Error: Viscosity is not finite."]}
    ELSE IF ~IsFinite(out.viscosity.viscosities)
    THEN {[threw |-> TRUE, error |-> "Error: Averaged viscosity is not finite."]}
    ELSE {}

simple_nonlinear_outcomes(out) == {out} \cup simple_nonlinear_asserts(out)

SimpleNonlinearEvaluate ==
    /\ cfg.model = "simple nonlinear" /\ cfg.ok
    /\ call.op = "parse_parameters" /\ call.done
    /\ \E in \in SimpleNonlinearPoints :
           \E out \in simple_nonlinear_outcomes(simple_nonlinear_evaluate(cfg, in)) :
               call' = Returned(Pending("evaluate", in), out)
    /\ UNCHANGED cfg

NextMaterial ==
    \/ ParseParameters
    \/ Evaluate
    \/ SimpleNonlinearParseParameters
    \/ SimpleNonlinearEvaluate

SpecMaterial == InitMaterial /\ [][NextMaterial]_vars

\* a ViscoPlastic::parse_parameters that returned or threw
IsParsed == cfg.model = "visco plastic" /\ call.op = "parse_parameters" /\ call.done

\* a ViscoPlastic::evaluate that returned
IsEvaluate == cfg.model = "visco plastic" /\ call.op = "evaluate" /\ call.done

\* a SimpleNonlinear::evaluate that returned or threw
IsSimpleNonlinearEvaluate ==
    cfg.model = "simple nonlinear" /\ call.op = "evaluate" /\ call.done


\* the strain tracked by a configuration, as evaluate selects it
total_strain_mode(c) ==
    /\ c.use_strain_weakening
    /\ ~c.use_plastic_strain_weakening
    /\ ~c.use_viscous_strain_weakening
    /\ ~c.use_finite_strain_tensor

plastic_viscous_strain_mode(c) ==
    c.use_plastic_strain_weakening \/ c.use_viscous_strain_weakening

finite_strain_tensor_mode(c) == c.use_finite_strain_tensor

\* the number of strain-tracking modes that are active
ActiveModes(c) ==
    Cardinality({m \in {"total", "plastic/viscous", "tensor"} :
                    \/ m = "total" /\ total_strain_mode(c)
                    \/ m = "plastic/viscous" /\ plastic_viscous_strain_mode(c)
                    \/ m = "tensor" /\ finite_strain_tensor_mode(c)})

\* the arguments of the calculate_isostrain_viscosities call of the evaluate
\* that returned
EvaluateArguments ==
    isostrain_arguments(cfg, call.in, call.in.pressure, call.in.strain_rate)

\* the pre-yield viscosity of phase j without any weakening factor
UnweakenedPreYield(j) ==
    spcrust_viscosity(
        cfg, EvaluateArguments, j,
        viscosity_flow_law(
            cfg.viscous_flow_law,
            viscosity_diffusion(cfg, EvaluateArguments, j),
            viscosity_dislocation(cfg, EvaluateArguments, j,
                                  call.out.calculate_viscosities.locals[j].edot_ii)))

\* C15: a configuration parse_parameters accepts has at most one
\* strain-tracking mode active, and none exactly when strain weakening is off;
\* parse_parameters rejects the finite strain tensor together with plastic or
\* viscous strain weakening; with no mode active every phase uses its
\* cohesion, friction angle and pre-yield viscosity unweakened, whatever the
\* composition.
C15_OneStrainModeOrNone ==
    /\ (cfg.model = "visco plastic" /\ cfg.ok) =>
           /\ ActiveModes(cfg) <= 1
           /\ ActiveModes(cfg) = 0 <=> ~cfg.use_strain_weakening
    /\ (IsParsed /\ call.in.use_finite_strain_tensor
        /\ (call.in.use_plastic_strain_weakening \/ call.in.use_viscous_strain_weakening))
       => ~cfg.ok
    /\ (IsEvaluate /\ ActiveModes(cfg) = 0 /\ call.in.strain_rate # <<>>) =>
           \A j \in 1..Len(call.in.volume_fractions) :
               LET l == call.out.calculate_viscosities.locals[j]
               IN  /\ l.coh = cfg.cohesions[j]
                   /\ l.phi = cfg.angles_internal_friction[j]
                   /\ l.viscous_weakening = One
                   /\ l.viscosity_pre_yield = UnweakenedPreYield(j)

\* strain weakening off, a composition of 2 and a friction angle: nothing is
\* weakened
C15_Witness ==
    /\ IsEvaluate
    /\ ActiveModes(cfg) = 0
    /\ call.in.strain_rate # <<>>
    /\ call.in.composition[1] = Two
    /\ call.out.calculate_viscosities.locals[1].phi # Zero
    /\ call.out.calculate_viscosities.locals[1].coh = cfg.cohesions[1]
    /\ IsFinite(call.out.calculate_viscosities.locals[1].viscosity_pre_yield)


\* names holds name
HasField(names, name) == \E i \in 1..Len(names) : names[i] = name

\* a flag of one strain mode is set while "Use strain weakening" is false
WeakeningFlagWithoutStrainWeakening(p) ==
    /\ ~p.use_strain_weakening
    /\ \/ p.use_plastic_strain_weakening
       \/ p.use_viscous_strain_weakening
       \/ p.use_finite_strain_tensor

\* the field of the active strain mode or of a spcrust option does not exist
RequiredFieldMissing(p, spcrust_viscosity_option, spcrust_density_option) ==
    \/ p.use_plastic_strain_weakening /\ ~HasField(p.field_names, "plastic_strain")
    \/ p.use_viscous_strain_weakening /\ ~HasField(p.field_names, "viscous_strain")
    \/ total_strain_mode(p) /\ ~HasField(p.field_names, "total_strain")
    \/ spcrust_viscosity_option /\ ~HasField(p.field_names, "spcrust")
    \/ spcrust_density_option /\ ~HasField(p.field_names, "spcrust")

\* fewer compositional fields than the finite strain tensor has components
TooFewTensorFields(p) ==
    p.use_finite_strain_tensor /\ Len(p.field_names) < n_independent_components(p.dim)

\* ViscoPlastic::parse_parameters throws on each of the three kinds of file,
\* and ViscoPlastic::evaluate runs on none of them
ViscoPlasticErrorsAtParse ==
    /\ (IsParsed
        /\ \/ WeakeningFlagWithoutStrainWeakening(call.in)
           \/ RequiredFieldMissing(call.in, call.in.use_fixed_spcrust_viscosity,
                                   call.in.use_spcrust_density_change)
           \/ TooFewTensorFields(call.in))
       => ~cfg.ok /\ call.out # ""
    /\ IsEvaluate =>
           /\ cfg.ok
           /\ ~WeakeningFlagWithoutStrainWeakening(cfg)
           /\ ~RequiredFieldMissing(cfg, cfg.use_fixed_spcrust_viscosity,
                                    cfg.use_spcrust_density_change)
           /\ ~TooFewTensorFields(cfg)

\* SimpleNonlinear::evaluate raised an error other than the failure of an
\* assertion on a computed viscosity
RaisedConfigurationError ==
    /\ call.out.threw
    /\ call.out.error \notin {"Error: Viscosity is not finite.",
                              "Error: Averaged viscosity is not finite."}

\* C16 as stated: configuration errors are raised by parse_parameters, before
\* any evaluate call (a weakening flag without "Use strain weakening", a
\* missing strain or spcrust field, too few fields for the finite strain
\* tensor), so that no evaluate call runs with such a configuration or raises
\* a configuration error itself.
C16_ConfigurationErrorsAtParse ==
    /\ ViscoPlasticErrorsAtParse
    /\ IsSimpleNonlinearEvaluate => ~RaisedConfigurationError

\* C16, amended: what is stated holds of ViscoPlastic; SimpleNonlinear raises
\* the mismatch between "Number of fields" and the number of compositional
\* fields of a point in evaluate, and no other configuration error
C16_ViscoPlasticConfigurationErrorsAtParse ==
    /\ ViscoPlasticErrorsAtParse
    /\ IsSimpleNonlinearEvaluate =>
           (RaisedConfigurationError <=> Len(call.in.composition) + 1 # cfg.n_fields)

\* parse_parameters threw on a spcrust density change without a spcrust field
C16_Witness ==
    /\ IsParsed
    /\ call.in.use_spcrust_density_change
    /\ ~HasField(call.in.field_names, "spcrust")
    /\ ~cfg.ok
    /\ call.out = "no compositional field called spcrust"


\* an evaluate that returned the per-phase derivatives
HasDerivatives == IsEvaluate /\ call.in.derivatives /\ call.in.strain_rate # <<>>

\* the passes of the loop over the independent strain-rate components
ComponentPasses == call.out.derivatives[1].composition_viscosities_derivatives

\* C17 as stated: for every independent strain-rate component the viscosity
\* difference is divided by the perturbation that was added to the component,
\* max(|component|, min_strain_rate) * finite_difference_accuracy of the
\* unperturbed strain rate, and the derivative is 0 when the difference is 0.
C17_DividedByPerturbation ==
    HasDerivatives =>
        \A n \in 1..Len(ComponentPasses) :
            LET pass == ComponentPasses[n]
            IN  /\ pass.perturbation
                       = finite_difference_step(cfg, call.in.strain_rate, pass.indices)
                /\ pass.strain_rate_difference[pass.indices[1]][pass.indices[2]]
                       = RAdd(call.in.strain_rate[pass.indices[1]][pass.indices[2]],
                              pass.perturbation)
                /\ pass.divisor = pass.perturbation
                /\ \A j \in 1..Len(pass.viscosity_derivative) :
                       IF pass.viscosity_difference[j] = Zero
                       THEN pass.viscosity_derivative[j] = Zero
                       ELSE pass.viscosity_derivative[j]
                                = RDiv(pass.viscosity_difference[j], pass.divisor)

\* a component of 1 perturbed by 1/8 and a viscosity difference divided by
\* 9/64: the derivative is not the difference over the perturbation
C17_Witness ==
    /\ HasDerivatives
    /\ \E n \in 1..Len(ComponentPasses) :
           LET pass == ComponentPasses[n]
           IN  /\ call.in.strain_rate[pass.indices[1]][pass.indices[2]] = One
               /\ pass.perturbation = finite_difference_accuracy
               /\ pass.divisor = RMul(RAdd(One, finite_difference_accuracy),
                                      finite_difference_accuracy)
               /\ \E j \in 1..Len(pass.viscosity_derivative) :
                      /\ IsFinite(pass.viscosity_difference[j])
                      /\ pass.viscosity_difference[j] # Zero
                      /\ pass.viscosity_derivative[j]
                             # RDiv(pass.viscosity_difference[j], pass.perturbation)

\* what does hold: the divisor is computed from the perturbed component, and
\* the derivative is the difference over that divisor, or 0 for no difference
DividedByStepOfPerturbedStrainRate ==
    HasDerivatives =>
        \A n \in 1..Len(ComponentPasses) :
            LET pass == ComponentPasses[n]
            IN  /\ pass.divisor
                       = finite_difference_step(cfg, pass.strain_rate_difference,
                                                pass.indices)
                /\ \A j \in 1..Len(pass.viscosity_derivative) :
                       IF pass.viscosity_difference[j] = Zero
                       THEN pass.viscosity_derivative[j] = Zero
                       ELSE pass.viscosity_derivative[j]
                                = RDiv(pass.viscosity_difference[j], pass.divisor)

\* ---------------------------------------------------------------------------
\* C18: the per-phase pressure derivative
\* ---------------------------------------------------------------------------

\* the per-phase viscosities evaluate computes at the point with another pressure
PhaseViscositiesAt(pressure) ==
    evaluate(cfg, [call.in EXCEPT !.pressure = pressure,
                                  !.derivatives = FALSE]).calculate_viscosities.first

PressurePass == call.out.derivatives[1].pressure

PressureStep == RMul(RAbs(call.in.pressure), finite_difference_accuracy)

C18_ZeroPressure ==
    /\ HasDerivatives
    /\ call.in.pressure = Zero
    /\ PressurePass.pressure_difference = Zero
    /\ \A j \in 1..Len(PressurePass.composition_dviscosities_dpressure) :
           PressurePass.composition_dviscosities_dpressure[j] = Zero

\* ---------------------------------------------------------------------------
\* C19: the per-phase derivatives of SimpleNonlinear::evaluate
\* ---------------------------------------------------------------------------

HasSimpleNonlinearDerivatives ==
    /\ IsSimpleNonlinearEvaluate
    /\ ~call.out.threw
    /\ call.in.derivatives
    /\ call.in.strain_rate # <<>>

\* the strain rate the viscosity of a phase is computed from
StrainRateOrDeviator ==
    IF cfg.use_deviator_of_strain_rate
    THEN deviator(call.in.strain_rate)
    ELSE call.in.strain_rate

\* the floor of the strain-rate invariant of phase j
InvariantFloor(j) == RMul(cfg.min_strain_rate[j], cfg.min_strain_rate[j])

\* the strain-rate invariant of the point
StrictInvariant ==
    Sqrt(RMul(Half, double_contraction(StrainRateOrDeviator, StrainRateOrDeviator)))

\* phase j has its invariant at or below the floor or its viscosity at a bound
AtFloorOrBound(j) ==
    LET viscosity == call.out.viscosity.phases[j].composition_viscosities
    IN  \/ ~RGt(StrictInvariant, InvariantFloor(j))
        \/ viscosity = cfg.min_viscosity[j]
        \/ viscosity = cfg.max_viscosity[j]

\* 2 * (1/n - 1) * viscosity * edot_ii^-2 * (strain rate or its deviator)
PowerLawDerivative(j) ==
    LET viscosity == call.out.viscosity.phases[j].composition_viscosities
        edot_ii_floored == RMul(Two, RMax(StrictInvariant, InvariantFloor(j)))
    IN  scaled_tensor(
            RMul(RMul(RMul(Two, RSub(RDiv(One, cfg.stress_exponent[j]), One)),
                      viscosity),
                 RDiv(One, RMul(edot_ii_floored, edot_ii_floored))),
            StrainRateOrDeviator)

\* C19: with derivatives requested, the strain-rate derivative of a phase is
\* the zero tensor when its strain-rate invariant is at or below the floor or
\* its viscosity is at the minimum or maximum bound, and is
\* 2*(1/n - 1)*viscosity*edot_ii^-2 times the strain rate (or its deviator)
\* otherwise; the pressure derivative is 0
C19_SimpleNonlinearDerivatives ==
    HasSimpleNonlinearDerivatives =>
        /\ \A j \in 1..Len(call.out.viscosity.phases) :
               call.out.viscosity.phases[j].composition_viscosities_derivatives =
                   <<IF AtFloorOrBound(j)
                     THEN zero_tensor(Len(call.in.strain_rate))
                     ELSE PowerLawDerivative(j)>>
        /\ call.out.viscosity.viscosity_derivative_wrt_pressure = <<Zero>>

\* a point where one phase is away from the floor and the bounds and has a
\* derivative that is not the zero tensor
C19_Witness ==
    /\ HasSimpleNonlinearDerivatives
    /\ \E j \in 1..Len(call.out.viscosity.phases) :
           /\ ~AtFloorOrBound(j)
           /\ call.out.viscosity.phases[j].composition_viscosities_derivatives
                  # <<zero_tensor(Len(call.in.strain_rate))>>

\* a point where the viscosity of a phase is at a bound although the
\* invariant is above the floor and the power-law expression is not 0
C19_ClampedViscosity ==
    /\ HasSimpleNonlinearDerivatives
    /\ \E j \in 1..Len(call.out.viscosity.phases) :
           /\ RGt(StrictInvariant, InvariantFloor(j))
           /\ AtFloorOrBound(j)
           /\ PowerLawDerivative(j) # zero_tensor(Len(call.in.strain_rate))
           /\ call.out.viscosity.phases[j].composition_viscosities_derivatives
                  = <<zero_tensor(Len(call.in.strain_rate))>>

\* a point where the invariant of a phase is at or below its floor
C19_FlooredStrainRate ==
    /\ HasSimpleNonlinearDerivatives
    /\ \E j \in 1..Len(call.out.viscosity.phases) :
           /\ ~RGt(StrictInvariant, InvariantFloor(j))
           /\ call.out.viscosity.phases[j].composition_viscosities_derivatives
                  = <<zero_tensor(Len(call.in.strain_rate))>>

\* ---------------------------------------------------------------------------
\* C20: the reaction terms in total-strain mode
\* ---------------------------------------------------------------------------

\* evaluate was called on a model that tracks the total strain
TotalStrainCall == cfg.model = "visco plastic" /\ call.op = "evaluate"
                   /\ total_strain_mode(cfg)

\* edot_ii * dt : max(sqrt(|second invariant of the deviatoric strain rate|),
\* min_strain_rate) * timestep
StrainIncrement ==
    RMul(RMax(Sqrt(RAbs(second_invariant(deviator(call.in.strain_rate)))),
              cfg.min_strain_rate),
         call.in.timestep)

\* the reaction terms of the claim: the increment for total_strain when the
\* timestep number is > 0 and a strain rate is supplied, 0 for it otherwise,
\* and 0 for every other field
TotalStrainReactionTerms ==
    [f \in 1..Len(call.in.composition) |->
        IF /\ cfg.field_names[f] = "total_strain"
           /\ call.in.timestep_number > 0
           /\ call.in.strain_rate # <<>>
        THEN StrainIncrement
        ELSE Zero]

\* C20: in total-strain mode evaluate sets the reaction term of total_strain
\* to max(sqrt(|J2 of the deviatoric strain rate|), min_strain_rate) * timestep
\* when the timestep number is > 0 and a strain rate is supplied, and to 0
\* otherwise; the reaction terms of all other fields are 0
C20_TotalStrainReactionTerm ==
    TotalStrainCall =>
        /\ call.done
        /\ call.out.reaction_terms = TotalStrainReactionTerms

\* what holds: every call that returns has these reaction terms
ReturnedTotalStrainReactionTerm ==
    (TotalStrainCall /\ call.done) =>
        call.out.reaction_terms = TotalStrainReactionTerms

\* a point of a model with a second field, at timestep 1 with a strain rate
\* above the minimum: total_strain advances, the other field does not
C20_Witness ==
    /\ TotalStrainCall /\ call.done
    /\ Len(cfg.field_names) = 2
    /\ call.in.timestep_number > 0
    /\ call.in.strain_rate # <<>>
    /\ RGt(StrainIncrement, RMul(cfg.min_strain_rate, call.in.timestep))
    /\ call.out.reaction_terms = <<Zero, StrainIncrement>>

\* a call without a strain rate that does not return
C20_NoStrainRateNoReturn ==
    /\ TotalStrainCall /\ ~call.done
    /\ call.in.strain_rate = <<>>

\* ---------------------------------------------------------------------------
\* C21: the reaction terms of the plastic and the viscous strain
\* ---------------------------------------------------------------------------

\* the reaction term evaluate returned for the field of that name
ReactionTermOf(name) ==
    call.out.reaction_terms[compositional_index_for_name(cfg.field_names, name) + 1]

PlasticOnlyCall ==
    /\ IsEvaluate /\ cfg.use_strain_weakening
    /\ cfg.use_plastic_strain_weakening /\ ~cfg.use_viscous_strain_weakening

PlasticAndViscousCall ==
    /\ IsEvaluate /\ cfg.use_strain_weakening
    /\ cfg.use_plastic_strain_weakening /\ cfg.use_viscous_strain_weakening

\* C21: with only the plastic strain tracked its reaction term is non-zero
\* only where the point yields; with the plastic and the viscous strain
\* tracked, at a timestep > 0 with a strain rate supplied the yielding point
\* advances plastic_strain by edot_ii * timestep and leaves viscous_strain at
\* 0, and the point that does not yield does the opposite
C21_OneStrainFieldAdvances ==
    /\ PlasticOnlyCall =>
           (ReactionTermOf("plastic_strain") # Zero => call.out.plastic_yielding)
    /\ (/\ PlasticAndViscousCall
        /\ call.in.timestep_number > 0
        /\ call.in.strain_rate # <<>>) =>
           IF call.out.plastic_yielding
           THEN /\ ReactionTermOf("plastic_strain") = StrainIncrement
                /\ ReactionTermOf("viscous_strain") = Zero
           ELSE /\ ReactionTermOf("plastic_strain") = Zero
                /\ ReactionTermOf("viscous_strain") = StrainIncrement

\* both strains tracked, a yielding point: the plastic strain advances
C21_Witness ==
    /\ PlasticAndViscousCall
    /\ call.in.timestep_number > 0
    /\ call.in.strain_rate # <<>>
    /\ call.out.plastic_yielding
    /\ StrainIncrement # Zero
    /\ call.out.reaction_terms = <<StrainIncrement, Zero>>

\* both strains tracked, a point that does not yield: the viscous strain advances
C21_ViscousAdvances ==
    /\ PlasticAndViscousCall
    /\ call.in.timestep_number > 0
    /\ call.in.strain_rate # <<>>
    /\ ~call.out.plastic_yielding
    /\ call.out.reaction_terms = <<Zero, StrainIncrement>>

\* only the plastic strain tracked, a point that does not yield at a
\* timestep > 0 with a strain rate: nothing advances
C21_PlasticOnlyNotYielding ==
    /\ PlasticOnlyCall
    /\ call.in.timestep_number > 0
    /\ call.in.strain_rate # <<>>
    /\ ~call.out.plastic_yielding
    /\ call.out.reaction_terms = <<Zero>>

(***************************************************************************)
(* The output record of a call over several points: the additional named   *)
(* outputs, create_additional_named_outputs, and the loop of evaluate over *)
(* the points                                                              *)
(***************************************************************************)
\* the most points of one call
MaxPoints == 2

\* MaterialModelOutputs(n_points, ...): nothing evaluated, no additional outputs
MaterialModelOutputs(n_points) ==
    [viscosities |-> [i \in 1..n_points |-> <<>>],
     points |-> [i \in 1..n_points |-> <<>>],
     additional_outputs |-> <<>>]

\* a slot of the list of additional outputs, sized to the points
AdditionalOutputs(type, n_points) ==
    [type |-> type, values |-> [i \in 1..n_points |-> <<>>]]

\* out.get_additional_output<T>() : the position of the first slot of that
\* type, 0 for NULL
get_additional_output(out, type) ==
    IF \E k \in 1..Len(out.additional_outputs) : out.additional_outputs[k].type = type
    THEN CHOOSE k \in 1..Len(out.additional_outputs) :
             /\ out.additional_outputs[k].type = type
             /\ \A m \in 1..(k - 1) : out.additional_outputs[m].type # type
    ELSE 0

\* a variant that adds a slot whether or not one is present
create_additional_named_outputs_always(out) ==
    [out EXCEPT !.additional_outputs =
        Append(@, AdditionalOutputs("PlasticAdditionalOutputs", Len(out.viscosities)))]

create_additional_named_outputs(out) ==
    IF get_additional_output(out, "PlasticAdditionalOutputs") = 0
    THEN [out EXCEPT !.additional_outputs =
             Append(@, AdditionalOutputs("PlasticAdditionalOutputs",
                                         Len(out.viscosities)))]
    ELSE out

\* the point handed to the body of the loop: the slots of the output record
\* decide what is asked of it
point_inputs(in, out) ==
    [in EXCEPT
        !.derivatives = get_additional_output(out, "MaterialModelDerivatives") # 0,
        !.plastic_out = get_additional_output(out, "PlasticAdditionalOutputs") # 0]

\* what the body of the loop stores in a slot for one point
slot_value(type, point) ==
    IF type = "PlasticAdditionalOutputs" THEN point.plastic_out
    ELSE IF type = "MaterialModelDerivatives" THEN point.derivatives
    ELSE <<>>

\* the slots after the loop: the first slot of a type evaluate looks for is
\* filled, every other slot is left alone
filled_outputs(out, points) ==
    [k \in 1..Len(out.additional_outputs) |->
        IF /\ out.additional_outputs[k].type
                  \in {"PlasticAdditionalOutputs", "MaterialModelDerivatives"}
           /\ k = get_additional_output(out, out.additional_outputs[k].type)
        THEN [out.additional_outputs[k] EXCEPT
                 !.values = [i \in 1..Len(points) |->
                                slot_value(out.additional_outputs[k].type, points[i])]]
        ELSE out.additional_outputs[k]]

evaluate_stored(out, points) ==
    [viscosities |-> [i \in 1..Len(points) |-> points[i].viscosities],
     points |-> points,
     additional_outputs |-> filled_outputs(out, points)]

\* a variant of the loop in which every point is evaluated from the inputs of
\* the first point
evaluate_points_first(c, in, out) ==
    evaluate_stored(out, [i \in 1..Len(in) |-> evaluate(c, point_inputs(in[1], out))])

\* for (unsigned int i=0; i < in.temperature.size(); ++i) : every point is
\* evaluated from its own inputs
evaluate_points(c, in, out) ==
    evaluate_stored(out, [i \in 1..Len(in) |-> evaluate(c, point_inputs(in[i], out))])


\* the models whose output record is followed: one that weakens with the
\* total strain and one with the finite strain tensor
OutputParameterFiles ==
    {TotalStrainParameterFile,
     [TotalStrainParameterFile EXCEPT
         !.field_names = <<"s11", "s12", "s21", "s22">>,
         !.use_finite_strain_tensor = TRUE]}

\* the lists of slots a caller may have put into the record
SlotLists(n_points) ==
    {[k \in 1..Len(types) |-> AdditionalOutputs(types[k], n_points)] :
        types \in {<<>>,
                   <<"SeismicAdditionalOutputs">>,
                   <<"PlasticAdditionalOutputs">>,
                   <<"SeismicAdditionalOutputs", "PlasticAdditionalOutputs">>}}

\* the velocity gradients of the solution at a point
OutputVelocityGradients(dim) ==
    {[i \in 1..dim |-> [k \in 1..dim |-> IF i = 1 /\ k = 2 THEN One ELSE Zero]],
     [i \in 1..dim |-> [k \in 1..dim |-> IF i = k THEN Half ELSE Zero]]}

\* the composition, the strain rate and the velocity gradient of a point: no
\* strain yet, under a strain rate above the minimum or without strain rate,
\* or a strain of 2 under no deformation; the finite strain tensor is the
\* identity, under either velocity gradient
OutputCases(c) ==
    LET shear == CHOOSE s \in StrainRates(c.dim) : s[1][1] = One
        rest == CHOOSE s \in StrainRates(c.dim) : s[1][1] = Zero /\ s[1][2] = Zero
        all(x) == [f \in 1..Len(c.field_names) |-> x]
        g == CHOOSE v \in VelocityGradients(c.dim) : TRUE
    IN  IF c.use_finite_strain_tensor
        THEN {<<<<One, Zero, Zero, One>>, shear, v>> : v \in OutputVelocityGradients(c.dim)}
             \cup {<<<<One, Zero, Zero, One>>, <<>>, g>>}
        ELSE {<<all(Zero), shear, g>>, <<all(Two), rest, g>>, <<all(Zero), <<>>, g>>}

\* a point at timestep 1 of the temperature and the pressure 1
OutputPoint(c, composition, strain_rate, velocity_gradient) ==
    [temperature |-> One,
     pressure |-> One,
     composition |-> composition,
     strain_rate |-> strain_rate,
     volume_fractions |-> CHOOSE v \in VolumeFractions(Len(c.field_names) + 1) : TRUE,
     derivatives |-> FALSE,
     plastic_out |-> FALSE,
     timestep_number |-> 1,
     timestep |-> Half,
     reference_density_profile |-> FALSE,
     adiabatic_density |-> One,
     current_cell_valid |-> TRUE,
     velocity_gradient |-> velocity_gradient]

OutputPoints(c) ==
    {OutputPoint(c, case[1], case[2], case[3]) : case \in OutputCases(c)}

\* the inputs of one call: in.strain_rate is empty or holds every point
OutputCalls(c, n_points) ==
    {in \in [1..n_points -> OutputPoints(c)] :
        \A i \in 1..n_points : (in[i].strain_rate = <<>>) = (in[1].strain_rate = <<>>)}

\* the types of the slots of the record, in their order
slot_types(out) ==
    [k \in 1..Len(out.additional_outputs) |-> out.additional_outputs[k].type]

InitOutputs ==
    /\ \E prm \in OutputParameterFiles : cfg = parse_parameters(prm)
    /\ \E n_points \in 1..MaxPoints :
           \E slots \in SlotLists(n_points) :
               call = Returned(Pending("MaterialModelOutputs", n_points),
                               [MaterialModelOutputs(n_points) EXCEPT
                                   !.additional_outputs = slots])

CreateAdditionalNamedOutputs ==
    /\ call.done
    /\ call' = Returned(Pending("create_additional_named_outputs",
                                [slots |-> slot_types(call.out)]),
                        create_additional_named_outputs(call.out))
    /\ UNCHANGED cfg

\* the read of in.strain_rate[i] at the top of the loop: without strain rate
\* the call returns or does not
evaluate_points_outcomes(c, in, out) ==
    {Returned(Pending("evaluate", [points |-> in, slots |-> slot_types(out)]),
              evaluate_points(c, in, out))}
    \cup (IF in[1].strain_rate = <<>>
          THEN {Pending("evaluate", [points |-> in, slots |-> slot_types(out)])}
          ELSE {})

EvaluatePoints ==
    /\ call.done
    /\ \E in \in OutputCalls(cfg, Len(call.out.viscosities)) :
           call' \in evaluate_points_outcomes(cfg, in, call.out)
    /\ UNCHANGED cfg

NextOutputs == CreateAdditionalNamedOutputs \/ EvaluatePoints

SpecOutputs == InitOutputs /\ [][NextOutputs]_vars


IsCreate == call.op = "create_additional_named_outputs" /\ call.done

IsEvaluatePoints == call.op = "evaluate" /\ call.done

\* ---------------------------------------------------------------------------
\* C22: the slot of the plastic outputs
\* ---------------------------------------------------------------------------

\* the number of PlasticAdditionalOutputs slots of a list of slot types
PlasticSlots(types) ==
    Cardinality({k \in 1..Len(types) : types[k] = "PlasticAdditionalOutputs"})

\* the slot evaluate looks up, when there is one
PlasticSlot == call.out.additional_outputs[
                   get_additional_output(call.out, "PlasticAdditionalOutputs")]

\* evaluate leaves the list of slots as it found it and, when a plastic slot
\* is present, stores in it C, phi and the 0/1 indicator of every point
EvaluateFillsPresentSlot ==
    IsEvaluatePoints =>
        /\ slot_types(call.out) = call.in.slots
        /\ PlasticSlots(call.in.slots) > 0 =>
               \A i \in 1..Len(call.in.points) :
                   /\ PlasticSlot.values[i] =
                          <<plastic_outputs(cfg, call.in.points[i],
                                            call.out.points[i].plastic_yielding)>>
                   /\ PlasticSlot.values[i][1].yielding \in {Zero, One}
        /\ PlasticSlots(call.in.slots) = 0 =>
               \A i \in 1..Len(call.in.points) : call.out.points[i].plastic_out = <<>>

\* create_additional_named_outputs appends one slot sized to the points when
\* there is none and changes nothing when there is one
CreateAddsMissingSlot ==
    IsCreate =>
        IF PlasticSlots(call.in.slots) = 0
        THEN /\ slot_types(call.out) = Append(call.in.slots, "PlasticAdditionalOutputs")
             /\ Len(PlasticSlot.values) = Len(call.out.viscosities)
        ELSE slot_types(call.out) = call.in.slots

\* C22: evaluate fills the plastic outputs only when the record holds their
\* slot and never creates it; create_additional_named_outputs adds one slot
\* sized to the points when none is present and nothing otherwise, so that
\* from the first such call on the record holds exactly one slot
C22_PlasticSlot ==
    /\ [](EvaluateFillsPresentSlot /\ CreateAddsMissingSlot)
    /\ [](IsCreate => PlasticSlots(slot_types(call.out)) = 1)
    /\ [][(PlasticSlots(slot_types(call.out)) = 1 /\ call'.done)
              => PlasticSlots(slot_types(call.out')) = 1]_vars

\* a record that was evaluated without the slot and then got it from
\* create_additional_named_outputs, sized to its two points and not yet filled
C22_Witness ==
    /\ IsCreate
    /\ PlasticSlots(call.in.slots) = 0
    /\ Len(call.out.viscosities) = 2
    /\ call.out.points[1] # <<>>
    /\ call.out.points[1].plastic_out = <<>>
    /\ PlasticSlots(slot_types(call.out)) = 1
    /\ PlasticSlot.values = <<<<>>, <<>>>>

\* an evaluate that found the slot and filled it for a yielding point
C22_SlotFilled ==
    /\ IsEvaluatePoints
    /\ PlasticSlots(call.in.slots) = 1
    /\ PlasticSlot.values[1] # <<>>
    /\ PlasticSlot.values[1][1].yielding = One


\* ---------------------------------------------------------------------------
\* C23: the outputs of a point depend on that point alone
\* ---------------------------------------------------------------------------

\* the outputs of point i are those of an evaluation of point i alone
PointOutputsFrom(i, point) ==
    call.out.points[i] = evaluate(cfg, point_inputs(point, call.out))

C23_PointsDiffer ==
    /\ IsEvaluatePoints
    /\ ~cfg.use_finite_strain_tensor
    /\ Len(call.in.points) = 2
    /\ call.out.points[1].viscosities # call.out.points[2].viscosities


\* ---------------------------------------------------------------------------
\* C24: a viscosity that is not finite
\* ---------------------------------------------------------------------------

\* the viscosity and the per-phase derivatives ViscoPlastic::evaluate returned
\* are finite
ViscoPlasticStoredFinite ==
    /\ IsFinite(call.out.viscosities)
    /\ call.out.derivatives # <<>> =>
           /\ \A n \in 1..Len(ComponentPasses) :
                  \A j \in 1..Len(ComponentPasses[n].viscosity_derivative) :
                      IsFinite(ComponentPasses[n].viscosity_derivative[j])
           /\ \A j \in 1..Len(PressurePass.composition_dviscosities_dpressure) :
                  IsFinite(PressurePass.composition_dviscosities_dpressure[j])

\* the viscosity and the per-phase derivatives SimpleNonlinear::evaluate
\* returned are finite
SimpleNonlinearStoredFinite ==
    /\ IsFinite(call.out.viscosity.viscosities)
    /\ \A j \in 1..Len(call.out.viscosity.phases) :
           /\ IsFinite(call.out.viscosity.phases[j].composition_viscosities)
           /\ \A d \in 1..Len(call.out.viscosity.phases[j].composition_viscosities_derivatives) :
                  \A i, k \in 1..Len(call.in.strain_rate) :
                      IsFinite(call.out.viscosity.phases[j]
                                   .composition_viscosities_derivatives[d][i][k])

\* C24: an evaluate call that computes a viscosity or a viscosity derivative
\* that is not finite ends in an error and does not store the value, in
\* ViscoPlastic::evaluate and in SimpleNonlinear::evaluate: what a call that
\* returns has stored is finite
C24_NonFiniteIsFatal ==
    /\ (IsEvaluate /\ call.in.strain_rate # <<>>) => ViscoPlasticStoredFinite
    /\ (IsSimpleNonlinearEvaluate /\ ~call.out.threw /\ call.in.strain_rate # <<>>)
           => SimpleNonlinearStoredFinite

\* ViscoPlastic::evaluate returns a viscosity that is not a number for a point
\* of temperature 0
C24_Witness ==
    /\ IsEvaluate
    /\ call.in.strain_rate # <<>>
    /\ call.in.temperature = Zero
    /\ IsNaN(call.out.viscosities)

\* SimpleNonlinear::evaluate ends at its assertion
C24_SimpleNonlinearAsserts ==
    /\ IsSimpleNonlinearEvaluate
    /\ call.out.threw
    /\ call.out.error = "Error: Viscosity is not finite."

\* SimpleNonlinear::evaluate built without assertions returns a viscosity that
\* is not a number
C24_SimpleNonlinearStores ==
    /\ IsSimpleNonlinearEvaluate
    /\ ~call.out.threw
    /\ call.in.strain_rate # <<>>
    /\ IsNaN(call.out.viscosity.viscosities)


\* ---------------------------------------------------------------------------
\* C25: the plastic-yielding flag of a point
\* ---------------------------------------------------------------------------

\* composition_yielding, the 0/1 indicators of the phases
PhaseYielding == call.out.calculate_viscosities.second

\* C25: the plastic-yielding flag is true if and only if at least one phase
\* of the point yields, whatever the volume fractions are
C25_YieldingIfAnyPhaseYields ==
    (IsEvaluate /\ call.in.strain_rate # <<>>) =>
        (call.out.plastic_yielding
             <=> \E j \in 1..Len(PhaseYielding) : PhaseYielding[j] = One)

\* what holds: the flag is the indicator of the phase max_element finds, the
\* first of those with the largest volume fraction
YieldingOfLargestFraction ==
    (IsEvaluate /\ call.in.strain_rate # <<>>) =>
        (call.out.plastic_yielding
             <=> PhaseYielding[max_element(call.in.volume_fractions)] = One)

\* a phase yields at a point whose flag is false
C25_Witness ==
    /\ IsEvaluate
    /\ call.in.strain_rate # <<>>
    /\ \E j \in 1..Len(PhaseYielding) : PhaseYielding[j] = One
    /\ ~call.out.plastic_yielding


\* ---------------------------------------------------------------------------
\* The finite strain tensor in calculate_isostrain_viscosities and in the
\* plastic outputs

\* the strain invariant of the tensor held by the fields s11, s12, ...
FieldStrainInvariant ==
    LET n_first == compositional_index_for_name(cfg.field_names, "s11")
        n == n_independent_components(cfg.dim)
    IN  RAbs(second_invariant(left_stretching_tensor(
            unrolled_tensor(SubSeq(call.in.composition, n_first + 1, n_first + n),
                            cfg.dim))))

\* a returned evaluation with the finite strain tensor that has a strain rate
\* and fills the plastic outputs
IsFiniteStrainEvaluate ==
    /\ IsEvaluate
    /\ cfg.use_finite_strain_tensor
    /\ call.in.strain_rate # <<>>
    /\ call.in.plastic_out

\* the cohesion of each phase in calculate_isostrain_viscosities
IsostrainCohesions ==
    [j \in 1..Len(call.in.volume_fractions) |-> call.out.calculate_viscosities.locals[j].coh]

\* C26: with the finite strain tensor, wherever parse_parameters accepts the
\* field s11, the cohesion of every phase in calculate_isostrain_viscosities is
\* weakened by the strain invariant of the tensor held by the fields s11, s12,
\* ..., and the cohesion of the plastic outputs is the volume-weighted sum of
\* the same weakened cohesions.
C26_SameStrainInvariant ==
    IsFiniteStrainEvaluate =>
        /\ \A j \in 1..Len(call.in.volume_fractions) :
               IsostrainCohesions[j]
                   = calculate_plastic_weakening(cfg, FieldStrainInvariant, j).first
        /\ call.out.plastic_out[1].cohesions
               = volume_weighted_sum(call.in.volume_fractions, IsostrainCohesions)

\* s11 is the second field: calculate_isostrain_viscosities weakens with the
\* first four fields, the plastic outputs with another tensor
C26_Witness ==
    /\ IsFiniteStrainEvaluate
    /\ compositional_index_for_name(cfg.field_names, "s11") = 1
    /\ \E j \in 1..Len(call.in.volume_fractions) :
           /\ call.in.volume_fractions[j] # Zero
           /\ IsostrainCohesions[j]
                  # calculate_plastic_weakening(cfg, FieldStrainInvariant, j).first
    /\ call.out.plastic_out[1].cohesions
           # volume_weighted_sum(call.in.volume_fractions, IsostrainCohesions)

\* s11 is the first field: both places use the invariant of the same tensor
C26_FirstField ==
    /\ IsFiniteStrainEvaluate
    /\ compositional_index_for_name(cfg.field_names, "s11") = 0
    /\ FieldStrainInvariant # Zero
    /\ IsostrainCohesions[1] # cfg.cohesions[1]
    /\ call.out.plastic_out[1].cohesions
           = volume_weighted_sum(call.in.volume_fractions, IsostrainCohesions)


\* ---------------------------------------------------------------------------
\* The layout of the finite strain tensor fields parse_parameters accepts

\* the names of the tensor components in row-major order
TensorFieldNames(dim) ==
    IF dim = 2 THEN <<"s11", "s12", "s21", "s22">>
    ELSE <<"s11", "s12", "s13", "s21", "s22", "s23", "s31", "s32", "s33">>

\* the tensor components are consecutive fields in row-major order
RowMajorConsecutive(names, dim) ==
    \E n_first \in 0..Len(names) :
        /\ n_first + Len(TensorFieldNames(dim)) <= Len(names)
        /\ SubSeq(names, n_first + 1, n_first + Len(TensorFieldNames(dim)))
               = TensorFieldNames(dim)

\* a parsed parameter file that asks for the finite strain tensor and names
\* every component of the tensor once, with strain weakening and without the
\* plastic or the viscous strain
IsTensorLayoutParsed ==
    /\ IsParsed
    /\ call.in.use_finite_strain_tensor
    /\ call.in.use_strain_weakening
    /\ ~call.in.use_plastic_strain_weakening
    /\ ~call.in.use_viscous_strain_weakening
    /\ \A k \in 1..Len(TensorFieldNames(call.in.dim)) :
           compositional_name_exists(call.in.field_names,
                                     TensorFieldNames(call.in.dim)[k])

\* C27: parse_parameters accepts a finite-strain-tensor configuration exactly
\* when the tensor components are consecutive compositional fields in
\* row-major order: it accepts every such layout and rejects every layout
\* whose tensor fields are not consecutive or not in that order.
C27_RowMajorLayoutAccepted ==
    IsTensorLayoutParsed =>
        (cfg.ok <=> RowMajorConsecutive(call.in.field_names, call.in.dim))

\* the four fields of 2-D with another field between s11 and s12 are accepted
C27_Witness ==
    /\ IsTensorLayoutParsed
    /\ call.in.dim = 2
    /\ ~RowMajorConsecutive(call.in.field_names, call.in.dim)
    /\ call.in.field_names[1] = "s11" /\ call.in.field_names[3] = "s12"
    /\ cfg.ok

\* the nine fields of 3-D in row-major order are rejected
C27_RowMajorRejected ==
    /\ IsTensorLayoutParsed
    /\ call.in.dim = 3
    /\ RowMajorConsecutive(call.in.field_names, call.in.dim)
    /\ ~cfg.ok
    /\ cfg.error = "finite strain tensor fields missing or out of order"

\* the four fields of 2-D in row-major order are accepted, at the first
\* position or behind another field
C27_RowMajorAccepted ==
    /\ IsTensorLayoutParsed
    /\ call.in.dim = 2
    /\ RowMajorConsecutive(call.in.field_names, call.in.dim)
    /\ call.in.field_names[1] # "s11"
    /\ cfg.ok

\* the fields of 2-D out of order are rejected
C27_OutOfOrderRejected ==
    /\ IsTensorLayoutParsed
    /\ call.in.dim = 2
    /\ call.in.field_names = <<"s11", "s21", "s12", "s22">>
    /\ ~cfg.ok


\* ---------------------------------------------------------------------------
\* The stress limiter

\* the local variables of the pass of phase j in a returned evaluation with
\* a strain rate
LimiterLocals(j) == call.out.calculate_viscosities.locals[j]

\* viscosity_limiter of phase j, from the strain rate invariant and the yield
\* strength of the pass
LimiterViscosity(j) ==
    viscosity_limiter(cfg, j, LimiterLocals(j).edot_ii, LimiterLocals(j).yield_strength)

Positive(a) == RLt(Zero, a)

\* the viscosity of phase j before the clamp is the one of the configured
\* yield mechanism
ConfiguredMechanism(j) ==
    /\ cfg.yield_mechanism = "stress_limiter" =>
           LimiterLocals(j).viscosity_yield
               = RDiv(One, RAdd(RDiv(One, LimiterViscosity(j)),
                                RDiv(One, LimiterLocals(j).viscosity_pre_yield)))
    /\ cfg.yield_mechanism = "drucker_prager" =>
           LimiterLocals(j).viscosity_yield
               = viscosity_drucker_prager(LimiterLocals(j).viscosity_pre_yield,
                                          LimiterLocals(j).edot_ii,
                                          LimiterLocals(j).yield_strength)

\* the viscosity of phase j before the clamp is strictly below the limiter
\* viscosity and the pre-yield viscosity
StrictlyBelowBoth(j) ==
    /\ RLt(LimiterLocals(j).viscosity_yield, LimiterViscosity(j))
    /\ RLt(LimiterLocals(j).viscosity_yield, LimiterLocals(j).viscosity_pre_yield)

IsLimiterEvaluate ==
    IsEvaluate /\ call.in.strain_rate # <<>> /\ cfg.yield_mechanism = "stress_limiter"

\* C28 as stated: under the stress limiter the viscosity of a phase before
\* the clamp is 1/(1/viscosity_limiter + 1/viscosity_pre_yield), which for
\* positive viscosity_limiter and viscosity_pre_yield is strictly below both;
\* the mechanism applied is the configured one at every point.
C28_StrictlyBelowForPositive ==
    (IsEvaluate /\ call.in.strain_rate # <<>>) =>
        \A j \in 1..Len(call.in.volume_fractions) :
            /\ ConfiguredMechanism(j)
            /\ (cfg.yield_mechanism = "stress_limiter"
                    /\ Positive(LimiterViscosity(j))
                    /\ Positive(LimiterLocals(j).viscosity_pre_yield))
                   => StrictlyBelowBoth(j)

\* C28: under the stress limiter the viscosity of a phase before the clamp is
\* 1/(1/viscosity_limiter + 1/viscosity_pre_yield); for positive finite
\* viscosity_limiter and viscosity_pre_yield it is strictly below both, and
\* with an infinite viscosity_pre_yield it is viscosity_limiter itself; the
\* mechanism applied is the configured one at every point.
C28_StrictlyBelowForPositiveFinite ==
    (IsEvaluate /\ call.in.strain_rate # <<>>) =>
        \A j \in 1..Len(call.in.volume_fractions) :
            /\ ConfiguredMechanism(j)
            /\ (cfg.yield_mechanism = "stress_limiter"
                    /\ Positive(LimiterViscosity(j)) /\ IsFinite(LimiterViscosity(j))
                    /\ Positive(LimiterLocals(j).viscosity_pre_yield)
                    /\ IsFinite(LimiterLocals(j).viscosity_pre_yield))
                   => StrictlyBelowBoth(j)
            /\ (cfg.yield_mechanism = "stress_limiter"
                    /\ Positive(LimiterViscosity(j)) /\ IsFinite(LimiterViscosity(j))
                    /\ LimiterLocals(j).viscosity_pre_yield = PosInf)
                   => LimiterLocals(j).viscosity_yield = LimiterViscosity(j)

\* the stress limiter with positive finite viscosities
C28_Witness ==
    /\ IsLimiterEvaluate
    /\ Positive(LimiterViscosity(1)) /\ IsFinite(LimiterViscosity(1))
    /\ Positive(LimiterLocals(1).viscosity_pre_yield)
    /\ IsFinite(LimiterLocals(1).viscosity_pre_yield)
    /\ StrictlyBelowBoth(1)

\* the stress limiter with an infinite pre-yield viscosity
C28_InfinitePreYield ==
    /\ IsLimiterEvaluate
    /\ Positive(LimiterViscosity(1))
    /\ LimiterLocals(1).viscosity_pre_yield = PosInf
    /\ LimiterLocals(1).viscosity_yield = LimiterViscosity(1)


\* ---------------------------------------------------------------------------
\* The bulk density

\* the density change of phase j at the pressure of the call
DensityChange(j) == delta_crust_density(cfg, call.in.pressure, j)

\* phase j is the spcrust phase of a model with the spcrust density change
IsSpcrustPhase(j) ==
    /\ cfg.use_spcrust_density_change
    /\ j = compositional_index_for_name(cfg.field_names, "spcrust") + 2

\* sum_j fraction_j * (density_j + delta_j) * (1 - expansivity_j * (T - reference_T))
BulkDensity ==
    RSum([j \in 1..Len(call.in.volume_fractions) |->
            RMul(RMul(call.in.volume_fractions[j],
                      RAdd(cfg.densities[j], DensityChange(j))),
                 RSub(One, RMul(cfg.thermal_expansivities[j],
                                RSub(call.in.temperature, cfg.reference_T))))])

\* the density change of phase j is within [0, density change] and does not
\* decrease towards any higher pressure
DensityChangeMonotone(j) ==
    /\ RLe(Zero, DensityChange(j))
    /\ RLe(DensityChange(j), cfg.spcrust_density_change)
    /\ \A pressure \in EvaluatePressures :
           RLe(call.in.pressure, pressure) =>
               RLe(DensityChange(j), delta_crust_density(cfg, pressure, j))

\* C30 as stated: the bulk density is the sum over the phases of fraction *
\* (density + delta) * (1 - expansivity * (T - reference_T)); delta is 0 except
\* for the spcrust phase with the density change enabled, where it is 0 for
\* pressure <= the minimum transition pressure, the configured change for
\* pressure >= the maximum transition pressure, and non-decreasing in pressure
\* within [0, change].
C30_BulkDensity ==
    IsEvaluate =>
        /\ call.out.densities = BulkDensity
        /\ \A j \in 1..Len(call.in.volume_fractions) :
               IF IsSpcrustPhase(j)
               THEN /\ RLe(call.in.pressure, cfg.spcrust_density_minimum_pressure)
                           => DensityChange(j) = Zero
                    /\ RGe(call.in.pressure, cfg.spcrust_density_maximum_pressure)
                           => DensityChange(j) = cfg.spcrust_density_change
                    /\ DensityChangeMonotone(j)
               ELSE DensityChange(j) = Zero

\* C30: the bulk density is the sum over the phases of fraction * (density +
\* delta) * (1 - expansivity * (T - reference_T)); delta is 0 except for the
\* spcrust phase with the density change enabled, where it is the configured
\* change for pressure >= the maximum transition pressure, 0 for pressure <=
\* the minimum transition pressure that is below the maximum transition
\* pressure, and non-decreasing in pressure within [0, change].
C30_BulkDensityBelowMaximum ==
    IsEvaluate =>
        /\ call.out.densities = BulkDensity
        /\ \A j \in 1..Len(call.in.volume_fractions) :
               IF IsSpcrustPhase(j)
               THEN /\ (RLe(call.in.pressure, cfg.spcrust_density_minimum_pressure)
                            /\ RLt(call.in.pressure, cfg.spcrust_density_maximum_pressure))
                           => DensityChange(j) = Zero
                    /\ RGe(call.in.pressure, cfg.spcrust_density_maximum_pressure)
                           => DensityChange(j) = cfg.spcrust_density_change
                    /\ DensityChangeMonotone(j)
               ELSE DensityChange(j) = Zero

\* the spcrust phase at a pressure at or above the maximum transition
\* pressure, with the whole density change in the bulk density
C30_Witness ==
    /\ IsEvaluate
    /\ IsSpcrustPhase(2)
    /\ RLt(cfg.spcrust_density_minimum_pressure, cfg.spcrust_density_maximum_pressure)
    /\ RGe(call.in.pressure, cfg.spcrust_density_maximum_pressure)
    /\ DensityChange(2) = cfg.spcrust_density_change
    /\ call.in.volume_fractions[2] # Zero
    /\ cfg.spcrust_density_change # Zero
    /\ call.out.densities = BulkDensity

\* the spcrust phase between the transition pressures
C30_BetweenPressures ==
    /\ IsEvaluate
    /\ IsSpcrustPhase(2)
    /\ RLt(Zero, DensityChange(2))
    /\ RLt(DensityChange(2), cfg.spcrust_density_change)

\* the spcrust phase below the minimum transition pressure
C30_BelowMinimum ==
    /\ IsEvaluate
    /\ IsSpcrustPhase(2)
    /\ RLt(cfg.spcrust_density_minimum_pressure, cfg.spcrust_density_maximum_pressure)
    /\ RLe(call.in.pressure, cfg.spcrust_density_minimum_pressure)
    /\ DensityChange(2) = Zero

\* equal transition pressures: at that pressure the whole change is applied
C30_EqualTransitionPressures ==
    /\ IsEvaluate
    /\ IsSpcrustPhase(2)
    /\ cfg.spcrust_density_minimum_pressure = cfg.spcrust_density_maximum_pressure
    /\ call.in.pressure = cfg.spcrust_density_minimum_pressure
    /\ DensityChange(2) = cfg.spcrust_density_change
    /\ cfg.spcrust_density_change # Zero


\* ---------------------------------------------------------------------------
\* Time steps in total-strain mode: the solver adds the reaction terms of a
\* step to the compositional fields and evaluates the next step

\* the number of the last time step that is followed
MaxTimestepNumber == 3

\* total-strain models with diffusion creep and the minimum strain rate 1/2,
\* so that a step adds 0, 1/2 or 1 to the strain: one field weakened over [0, 1];
\* the total strain behind another field, weakened over [1/2, 3/2]; a cohesion
\* weakening factor above 1
StrainParameterFiles ==
    {[prm EXCEPT !.viscous_flow_law = "diffusion", !.minimum_strain_rate = Half] :
        prm \in {TotalStrainParameterFile,
                 [TotalStrainParameterFile EXCEPT
                     !.field_names = <<"crust", "total_strain">>,
                     !.start_plasticity_strain_weakening_intervals = <<Half>>,
                     !.end_plasticity_strain_weakening_intervals = <<Rat(3, 2)>>,
                     !.start_prefactor_strain_weakening_intervals = <<Half>>,
                     !.end_prefactor_strain_weakening_intervals = <<Rat(3, 2)>>],
                 [TotalStrainParameterFile EXCEPT
                     !.cohesion_strain_weakening_factors = <<Two>>]}}

\* the sizes of a time step
StrainTimesteps == {Zero, One}

\* the point of one time step: the temperature and the pressure stay 1
StrainPoint(c, composition, strain_rate, timestep_number, timestep) ==
    [temperature |-> One,
     pressure |-> One,
     composition |-> composition,
     strain_rate |-> strain_rate,
     volume_fractions |-> CHOOSE v \in VolumeFractions(Len(c.field_names) + 1) : TRUE,
     derivatives |-> FALSE,
     plastic_out |-> FALSE,
     timestep_number |-> timestep_number,
     timestep |-> timestep,
     reference_density_profile |-> FALSE,
     adiabatic_density |-> One,
     current_cell_valid |-> TRUE,
     velocity_gradient |-> CHOOSE v \in VelocityGradients(c.dim) : TRUE]

\* the solver adds the reaction term of every field to the field
add_reaction_terms(composition, reaction_terms) ==
    [f \in 1..Len(composition) |-> RAdd(composition[f], reaction_terms[f])]

InitStrain ==
    /\ \E prm \in StrainParameterFiles :
           /\ cfg = parse_parameters(prm)
           /\ call = Returned(Pending("parse_parameters", prm), parse_error(prm))

\* the evaluation of time step 0, with no strain in any field
FirstTimeStep ==
    /\ call.op = "parse_parameters" /\ call.done /\ cfg.ok
    /\ \E strain_rate \in StrainRates(cfg.dim) \cup {<<>>} :
       \E timestep \in StrainTimesteps :
           call' \in evaluate_outcomes(
                         cfg,
                         StrainPoint(cfg, [f \in 1..Len(cfg.field_names) |-> Zero],
                                     strain_rate, 0, timestep))
    /\ UNCHANGED cfg

\* the evaluation of the next time step, on the fields the solver advanced by
\* the reaction terms of the last one
NextTimeStep ==
    /\ call.op = "evaluate" /\ call.done
    /\ call.in.timestep_number < MaxTimestepNumber
    /\ \E strain_rate \in StrainRates(cfg.dim) \cup {<<>>} :
       \E timestep \in StrainTimesteps :
           call' \in evaluate_outcomes(
                         cfg,
                         StrainPoint(cfg,
                                     add_reaction_terms(call.in.composition,
                                                        call.out.reaction_terms),
                                     strain_rate, call.in.timestep_number + 1, timestep))
    /\ UNCHANGED cfg

NextStrain == FirstTimeStep \/ NextTimeStep

SpecStrain == InitStrain /\ [][NextStrain]_vars

\* a returned evaluation of a time step
IsTimeStep == call.op = "evaluate" /\ call.done

\* the total_strain field at the evaluation
TotalStrain ==
    call.in.composition[compositional_index_for_name(cfg.field_names, "total_strain") + 1]

\* the local variables of phase j, present when the step has a strain rate
StepLocals(j) == call.out.calculate_viscosities.locals[j]

\* the weakening factors of phase j are in [0, 1] and its intervals have
\* start < end
WeakeningInRange(j) ==
    /\ \A k \in {cfg.cohesion_strain_weakening_factors[j],
                 cfg.friction_strain_weakening_factors[j],
                 cfg.viscous_strain_weakening_factors[j]} : RLe(Zero, k) /\ RLe(k, One)
    /\ RLt(cfg.start_plastic_strain_weakening_intervals[j],
           cfg.end_plastic_strain_weakening_intervals[j])
    /\ RLt(cfg.start_viscous_strain_weakening_intervals[j],
           cfg.end_viscous_strain_weakening_intervals[j])

\* phase j has the cohesion, the friction angle and the viscous weakening
\* factor of the end of its intervals
FullyWeakened(j) ==
    /\ StepLocals(j).coh = RMul(cfg.cohesions[j], cfg.cohesion_strain_weakening_factors[j])
    /\ StepLocals(j).phi
           = RMul(cfg.angles_internal_friction[j], cfg.friction_strain_weakening_factors[j])
    /\ StepLocals(j).viscous_weakening = cfg.viscous_strain_weakening_factors[j]

\* the total strain is at or beyond the end of both intervals of phase j
BeyondIntervals(j) ==
    /\ RGe(TotalStrain, cfg.end_plastic_strain_weakening_intervals[j])
    /\ RGe(TotalStrain, cfg.end_viscous_strain_weakening_intervals[j])

\* from one time step to the next no weakened value of phase j increases
NoPhaseStrengthens(j) ==
    /\ RLe(StepLocals(j).coh', StepLocals(j).coh)
    /\ RLe(StepLocals(j).phi', StepLocals(j).phi)
    /\ RLe(StepLocals(j).viscous_weakening', StepLocals(j).viscous_weakening)

\* C29: in total-strain mode, from one time step to the next, with the
\* reaction terms added to the fields, the total strain never decreases, and
\* for a phase with weakening factors in [0, 1] and start < end the weakened
\* cohesion, the weakened friction angle and the viscous weakening factor
\* never increase; a phase whose strain has reached the end of its intervals
\* is fully weakened and stays so.
C29_WeakeningNeverRecovers ==
    [][(IsTimeStep /\ IsTimeStep') =>
          /\ RLe(TotalStrain, TotalStrain')
          /\ TotalStrain' = RAdd(TotalStrain, call.out.reaction_terms[
                 compositional_index_for_name(cfg.field_names, "total_strain") + 1])
          /\ (call.in.strain_rate # <<>> /\ call.in.strain_rate' # <<>>) =>
                 \A j \in 1..Len(call.in.volume_fractions) :
                     WeakeningInRange(j) =>
                         /\ NoPhaseStrengthens(j)
                         /\ BeyondIntervals(j) =>
                                FullyWeakened(j) /\ BeyondIntervals(j)' /\ FullyWeakened(j)'
      ]_vars

\* a step whose strain lies inside the interval, after a step that added a
\* positive reaction term
C29_Witness ==
    /\ IsTimeStep
    /\ call.in.timestep_number >= 2
    /\ call.in.strain_rate # <<>>
    /\ WeakeningInRange(1)
    /\ RLt(cfg.start_plastic_strain_weakening_intervals[1], TotalStrain)
    /\ RLt(TotalStrain, cfg.end_plastic_strain_weakening_intervals[1])
    /\ RLt(StepLocals(1).coh, cfg.cohesions[1])
    /\ RLt(RMul(cfg.cohesions[1], cfg.cohesion_strain_weakening_factors[1]),
           StepLocals(1).coh)

\* a step after the strain reached the end of the intervals
C29_FullyWeakened ==
    /\ IsTimeStep
    /\ call.in.timestep_number = MaxTimestepNumber
    /\ call.in.strain_rate # <<>>
    /\ WeakeningInRange(1)
    /\ RGt(TotalStrain, cfg.end_plastic_strain_weakening_intervals[1])
    /\ BeyondIntervals(1)
    /\ FullyWeakened(1)

\* a cohesion weakening factor above 1: the cohesion grows with the strain
C29_FactorAboveOne ==
    /\ IsTimeStep
    /\ call.in.strain_rate # <<>>
    /\ ~WeakeningInRange(1)
    /\ RGt(StepLocals(1).coh, cfg.cohesions[1])

====
